---- MODULE Spec2Model ----
(***************************************************************************)
(* Download orchestration of BunkrDownloader: the album-level concurrency  *)
(* controller (AlbumDownloader), the per-file retry state machine          *)
(* (MediaDownloader), the shared host-status registry (bunkr_status) and   *)
(* the chunked file writer (save_file_with_progress).                      *)
(*                                                                         *)
(* One album is downloaded.  The event loop runs one execute_item_download *)
(* coroutine per item page; MediaDownloader.download runs in a worker      *)
(* thread (asyncio.to_thread), so its steps interleave with the steps of   *)
(* the other workers.  A step of the model is the code between two points  *)
(* where another worker can run: an await in the coroutine, one iteration  *)
(* of the attempt loop in the thread, one time.sleep.                      *)
(*                                                                         *)
(* album_downloader.py hands its filter configuration to MediaDownloader   *)
(* under the keyword ignore_list, media_downloader.py receives it as args  *)
(* (the two files are of different revisions); the model passes the        *)
(* album's filter configuration through to skip_file_download.             *)
(*                                                                         *)
(* Specifications: Spec (one album), SpecMD (one MediaDownloader on its    *)
(* own), SpecPool (two MediaDownloaders in threads on the shared           *)
(* registry), SpecWriter (one save_file_with_progress call, chunk by       *)
(* chunk), SpecChunk (get_chunk_size on pairs of file sizes), SpecLive     *)
(* (one album with its progress display and session log followed),         *)
(* SpecInterrupt (one album that Ctrl-C may interrupt), SpecCrypt          *)
(* (decrypt_url on encrypted links), SpecResolver (get_download_info on    *)
(* item pages), SpecShared (one album with two workers in flight),         *)
(* SpecCount (one album with the requests of its last item counted),       *)
(* SpecNames (truncate_filename on file names), SpecPaths (the temp paths  *)
(* of two jobs in flight) and SpecFair (one album whose calls all return). *)
(***************************************************************************)
EXTENDS Integers, Sequences, FiniteSets, TLC

(***************************************************************************)
(* Bounds of the model.                                                    *)
(***************************************************************************)
NItems == 2          \* item pages of the album
MaxWorkers == 1      \* max_workers handed to download_album
MaxRetries == 5      \* largest retry budget of a stand-alone downloader
BodySize == 2        \* bytes of a complete response body
SizeSpread == 1      \* file sizes tried on either side of a threshold
MaxLen == 3          \* characters of a short text (URL tail, file name)

(***************************************************************************)
(* Program constants.                                                      *)
(***************************************************************************)
DefaultRetries == 5
RetryOnce == 1
HTTP_STATUS_SERVER_DOWN == 521
HTTP_STATUS_BAD_GATEWAY == 502
BackoffBase == 4
JitterMin == 2
JitterMax == 4

Items == 1..NItems
Hosts == {"Cdn-a", "Cdn-b"}
Jitter == JitterMin..JitterMax

\* A download link: the item it belongs to and the host (first label of the
\* network location) it points to.  The file name of item j is j.
Links == [item : Items, host : Hosts]

\* What one requests.get(..., stream=True) and the reading of its body can do.
\* status 0 is "no response" (ConnectionError, Timeout: a RequestException whose
\* response is None).  For a 200 response: the declared content-length (-1 when
\* the header is missing), the bytes the stream delivers, and how the stream
\* ends: "eof" (exhausted), "abort" (iter_content raises a RequestException,
\* response None) or "oserror" (the write to the temp file raises OSError).
ErrorStatuses == {0, 404, 429, 502, 503, 521}
Responses ==
    [status : ErrorStatuses, length : {-1}, received : {0}, ending : {"eof"}]
    \cup [status : {200}, length : {-1, BodySize}, received : 0..BodySize,
          ending : {"eof", "abort", "oserror"}]

VARIABLES
    semaphore,          \* permits left of asyncio.Semaphore(max_workers)
    wpc,                \* position of each execute_item_download coroutine
    apc,                \* position of download_album
    retry_idx,          \* index of process_failed_downloads' for loop
    failed_downloads,   \* AlbumDownloader.failed_downloads
    md,                 \* the MediaDownloader of each item (the thread's state)
    bunkr_status,       \* the shared host registry
    initial_status,     \* the registry as get_bunkr_status() delivered it
    down_seen,          \* hosts an attempt against which got no response / 521
    args,               \* filter configuration (ignore / include lists)
    files,              \* items whose final path exists
    temps,              \* items whose .temp path exists
    session_log,        \* lines of the session log, per link's item
    appended,           \* per task: records appended to failed_downloads
    retried,            \* per task: retry_failed_download invocations
    writer,             \* one save_file_with_progress call, chunk by chunk
    sizes,              \* the file sizes get_chunk_size is called with
    crypt,              \* one decrypt_url call on an API payload
    resolver,           \* one get_download_info call on an item page
    task_progress,      \* per item: its tracker of the progress display
    journal,            \* per item: event logged, how the item ended
    naming,             \* one truncate_filename call on a file name
    paths               \* the final and temp paths of two jobs in flight

vars == <<semaphore, wpc, apc, retry_idx, failed_downloads, md, bunkr_status,
          initial_status, down_seen, args, files, temps, session_log,
          appended, retried, writer, sizes, crypt, resolver, task_progress,
          journal, naming, paths>>

(***************************************************************************)
(* Host registry (helpers.bunkr_utils: subdomain_is_offline and            *)
(* mark_subdomain_as_offline).  The key is the capitalized first label of  *)
(* the link's network location, here link.host.                            *)
(***************************************************************************)
StatusValues == {"Operational", "Non-operational"}

\* What get_bunkr_status() read from the status page before the downloads: the
\* hosts are alike, so one host that may be reported down is enough.
StatusPageDown == {"Cdn-b"}
InitialStatuses ==
    {[h \in Hosts |-> IF h \in D THEN "Non-operational" ELSE "Operational"] :
        D \in SUBSET StatusPageDown}

subdomain_is_offline(download_link, status) ==
    status[download_link.host] # "Operational"

\* mark_subdomain_as_offline building the registry anew around its one mark
\* (what was known of the other hosts is dropped).
mark_subdomain_as_offline_only(status, download_link) ==
    [h \in DOMAIN status |->
        IF h = download_link.host THEN "Non-operational" ELSE "Operational"]

mark_subdomain_as_offline(status, download_link) ==
    [status EXCEPT ![download_link.host] = "Non-operational"]

(***************************************************************************)
(* Filter configuration.  A word occurs in the file name of item j iff the *)
(* word is j.                                                              *)
(***************************************************************************)
FilterWords == {1}
NoArgs == [ignore |-> {}, include |-> {}]
ArgsChoices == [ignore : SUBSET FilterWords, include : SUBSET FilterWords]
\* AlbumDownloader holds an ignore list only.
AlbumArgs == [ignore : SUBSET FilterWords, include : {{}}]

file_name(link) == link.item
Occurs(word, name) == word = name

\* The positions of download_album at which the event loop is being torn down
\* or the process has exited (with the status in the name).
Exited == {"exit 0", "exit 1", "exit 130"}
TornDown == {"raised", "interrupted"} \cup Exited

(***************************************************************************)
(* Progress display (ProgressManager) and what is known of each item.      *)
(***************************************************************************)
\* A tracker of task_progress: finished (its finished_time is set: completed
\* has reached the total once), visible, and advanced: the times
\* overall_progress.advance was called for it.  overall_progress.completed is
\* the sum of these over the items.
TaskTotal == 100
NoTask == [finished |-> FALSE, visible |-> FALSE, advanced |-> 0]

\* add_task(current_task): task_progress.add_task(description, total = 100)
add_task == [finished |-> FALSE, visible |-> TRUE, advanced |-> 0]

\* What is known of an item: whether live_manager.update_log was called for it,
\* how its last pass ended ("none": it has not, or it was deferred), and the
\* requests.get calls made for it in both passes.
NoEntry == [logged |-> FALSE, ended |-> "none", gets |-> 0]

\* The model follows the trackers and the journal of the items in their
\* domain: all items, or none (the display is left out of the state).
Follow(f, j, value) == IF j \in DOMAIN f THEN [f EXCEPT ![j] = value] ELSE f
NotFollowed == [j \in {} |-> NoEntry]

RECURSIVE Sum(_, _)
Sum(f, S) ==
    IF S = {} THEN 0
    ELSE LET x == CHOOSE y \in S : TRUE IN f[x] + Sum(f, S \ {x})

\* overall_progress.tasks[-1].completed and .total
overall_completed ==
    Sum([j \in DOMAIN task_progress |-> task_progress[j].advanced],
        DOMAIN task_progress)
overall_total == NItems


(***************************************************************************)
(* MediaDownloader                                                         *)
(***************************************************************************)
NoLink == [item |-> 0, host |-> "none"]

\* live_manager.update_task(task, completed = ..., visible = ...) as the
\* downloader calls it: completed is {} when the argument is left out (None).
\* The calls the file writer makes after every chunk are those of writer.sink.
NoUpdate == [called |-> FALSE, completed |-> {}, visible |-> TRUE]
update_task(completed, visible) ==
    [called |-> TRUE, completed |-> completed, visible |-> visible]

\* ProgressManager.update_task(task_id, completed, visible) on one tracker:
\* task_progress.update sets completed and visible, and the tracker is finished
\* from the first time completed reaches the total; _update_overall_task
\* advances the overall counter and hides the tracker whenever the tracker is
\* finished.
update_overall_task(task, call) ==
    LET finished == task.finished \/ \E c \in call.completed : c >= TaskTotal
    IN  [finished |-> finished,
         visible |-> IF finished THEN FALSE ELSE call.visible,
         advanced |-> IF finished THEN task.advanced + 1 ELSE task.advanced]

NoDownloader ==
    [pc |-> "none", link |-> NoLink, args |-> NoArgs, retries |-> 0,
     budget |-> 0, is_final_attempt |-> FALSE, attempt |-> 0, delay |-> 0,
     gets |-> 0, sleeps |-> 0, last |-> -1, limited |-> TRUE,
     result |-> "pending", outcome |-> "none", tracker |-> NoUpdate]

\* MediaDownloader.__init__, then asyncio.to_thread(downloader.download): the
\* thread stands at the first line of download().  gets, sleeps, last, limited
\* and outcome record what the invocation did: the HTTP GETs made, the sleeps
\* taken, the status of the last response, whether every response so far was a
\* rate-limit status, and how the invocation ended.
MediaDownloader(download_link, retries, a) ==
    [NoDownloader EXCEPT !.pc = "download", !.link = download_link,
                         !.args = a, !.retries = retries]

\* skip_file_download without the include list.
skip_file_download_ignore_only(self, exists) ==
    \/ exists
    \/ /\ self.args.ignore # {}
       /\ \E word \in self.args.ignore : Occurs(word, file_name(self.link))

\* skip_file_download without the look at the final path.
skip_file_download_filters(self, exists) ==
    \/ /\ self.args.ignore # {}
       /\ \E word \in self.args.ignore : Occurs(word, file_name(self.link))
    \/ /\ self.args.include # {}
       /\ \A word \in self.args.include : ~Occurs(word, file_name(self.link))

\* skip_file_download: TRUE when the download is to be skipped.
skip_file_download(self, exists) ==
    \/ exists
    \/ /\ self.args.ignore # {}
       /\ \E word \in self.args.ignore : Occurs(word, file_name(self.link))
    \/ /\ self.args.include # {}
       /\ \A word \in self.args.include : ~Occurs(word, file_name(self.link))

RateLimitStatuses == {429, 503}

\* BackoffDelay with the exponent one too small.
BackoffDelay_flat(attempt, jitter) == BackoffBase ^ attempt + jitter

\* The delay handle_request_exception sleeps before a retry.
BackoffDelay(attempt, jitter) == BackoffBase ^ (attempt + 1) + jitter

\* handle_request_exception retrying after the last allowed attempt too.
handle_request_exception_late(self, status, attempt) ==
    IF status = 0 \/ status = HTTP_STATUS_SERVER_DOWN
    THEN [retry |-> FALSE, mark |-> TRUE, sleep |-> FALSE,
          retries |-> self.retries]
    ELSE IF status \in RateLimitStatuses /\ attempt < self.retries
    THEN [retry |-> TRUE, mark |-> FALSE, sleep |-> TRUE,
          retries |-> self.retries]
    ELSE IF status = HTTP_STATUS_BAD_GATEWAY
    THEN [retry |-> FALSE, mark |-> FALSE, sleep |-> FALSE,
          retries |-> RetryOnce]
    ELSE [retry |-> FALSE, mark |-> FALSE, sleep |-> FALSE,
          retries |-> self.retries]

\* handle_request_exception taking only the 521 status for a server that is
\* down, not a missing response.
handle_request_exception_521(self, status, attempt) ==
    IF status = HTTP_STATUS_SERVER_DOWN
    THEN [retry |-> FALSE, mark |-> TRUE, sleep |-> FALSE,
          retries |-> self.retries]
    ELSE IF status \in RateLimitStatuses /\ attempt < self.retries - 1
    THEN [retry |-> TRUE, mark |-> FALSE, sleep |-> TRUE,
          retries |-> self.retries]
    ELSE IF status = HTTP_STATUS_BAD_GATEWAY
    THEN [retry |-> FALSE, mark |-> FALSE, sleep |-> FALSE,
          retries |-> RetryOnce]
    ELSE [retry |-> FALSE, mark |-> FALSE, sleep |-> FALSE,
          retries |-> self.retries]

\* handle_request_exception retrying after every status but 502, not after
\* the rate-limit statuses only.
handle_request_exception_any_status(self, status, attempt) ==
    IF status = 0 \/ status = HTTP_STATUS_SERVER_DOWN
    THEN [retry |-> FALSE, mark |-> TRUE, sleep |-> FALSE,
          retries |-> self.retries]
    ELSE IF status # HTTP_STATUS_BAD_GATEWAY /\ attempt < self.retries - 1
    THEN [retry |-> TRUE, mark |-> FALSE, sleep |-> TRUE,
          retries |-> self.retries]
    ELSE IF status = HTTP_STATUS_BAD_GATEWAY
    THEN [retry |-> FALSE, mark |-> FALSE, sleep |-> FALSE,
          retries |-> RetryOnce]
    ELSE [retry |-> FALSE, mark |-> FALSE, sleep |-> FALSE,
          retries |-> self.retries]

\* handle_request_exception(req_err, attempt): status 0 is req_err.response is
\* None.  retry: the return value; mark: the host is marked offline; sleep: it
\* slept before returning; retries: self.retries after the call.
handle_request_exception(self, status, attempt) ==
    IF status = 0 \/ status = HTTP_STATUS_SERVER_DOWN
    THEN [retry |-> FALSE, mark |-> TRUE, sleep |-> FALSE,
          retries |-> self.retries]
    ELSE IF status \in RateLimitStatuses /\ attempt < self.retries - 1
    THEN [retry |-> TRUE, mark |-> FALSE, sleep |-> TRUE,
          retries |-> self.retries]
    ELSE IF status = HTTP_STATUS_BAD_GATEWAY
    THEN [retry |-> FALSE, mark |-> FALSE, sleep |-> FALSE,
          retries |-> RetryOnce]
    ELSE [retry |-> FALSE, mark |-> FALSE, sleep |-> FALSE,
          retries |-> self.retries]

\* handle_failed_download handing the job back whatever the pass.
handle_failed_download_always(is_final_attempt) == "FailedDownload"

\* handle_failed_download(is_final_attempt): the value download() returns after
\* a failed attempt_download.
handle_failed_download(is_final_attempt) ==
    IF ~is_final_attempt THEN "FailedDownload" ELSE "None"

\* completed = (total_downloaded / file_size) * 100 for file_size # 0, rounded
\* toward zero.
Percentage(total_downloaded, file_size) ==
    IF file_size > 0 THEN (total_downloaded * 100) \div file_size
    ELSE 0 - ((total_downloaded * 100) \div (0 - file_size))

\* The update_task calls save_file_with_progress makes on the tracker, one per
\* chunk written.
RECURSIVE stream_updates(_, _, _)
stream_updates(task, response, total_downloaded) ==
    IF total_downloaded = 0 THEN task
    ELSE update_overall_task(
            stream_updates(task, response, total_downloaded - 1),
            update_task({Percentage(total_downloaded, response.length)}, TRUE))

\* The tracker and the journal entry of a job after a step of its downloader
\* (next): the handler's update_task call, if it made one, comes after those
\* of the writer; update_log was called when logged is TRUE.
TaskAfter(task, next) ==
    IF next.tracker.called THEN update_overall_task(task, next.tracker)
    ELSE task

EntryAfter(entry, next, logged) ==
    [entry EXCEPT
        !.logged = @ \/ logged,
        !.ended = IF next.pc \in {"returned", "raised"}
                     /\ next.outcome # "Deferred"
                  THEN next.outcome ELSE @]

\* save_file_with_progress(response, ...): raised is the exception that leaves
\* the function ("request": iter_content raised, "os": the write raised), partial
\* its return value, moved whether the temp file was renamed to the final path.
save_file_with_progress(response) ==
    LET file_size == response.length
        total_downloaded == response.received
    IN  IF response.ending = "abort"
        THEN [raised |-> "request", partial |-> FALSE, moved |-> FALSE]
        ELSE IF response.ending = "oserror"
        THEN [raised |-> "os", partial |-> FALSE, moved |-> FALSE]
        ELSE IF total_downloaded = file_size
        THEN [raised |-> "none", partial |-> FALSE, moved |-> TRUE]
        ELSE [raised |-> "none", partial |-> TRUE, moved |-> FALSE]

\* handle_partial_download without the update of the tracker.
handle_partial_download_quiet(self) ==
    [self EXCEPT !.outcome = "Partial"]

\* handle_partial_download(): the log line, write_on_session_log (the action
\* adds the line) and the tracker set to 100% and hidden.
handle_partial_download(self) ==
    [self EXCEPT !.outcome = "Partial",
                 !.tracker = update_task({100}, FALSE)]

\* The end of download() after attempt_download returned True (the download
\* failed): handle_failed_download decides what download() returns, and hides
\* the tracker when it returns None.
Failed(self) ==
    [self EXCEPT !.pc = "returned",
                 !.result = handle_failed_download(self.is_final_attempt),
                 !.outcome = IF handle_failed_download(self.is_final_attempt)
                                = "FailedDownload"
                             THEN "Deferred" ELSE "Failed",
                 !.tracker = IF handle_failed_download(self.is_final_attempt)
                                = "FailedDownload"
                             THEN @ ELSE update_task({}, FALSE)]

\* The pre-check of download() cutting every pass short, not the last only.
is_final_attempt_any(self) == TRUE

\* is_final_attempt = self.retries == 1, the first line of download().
is_final_attempt(self) == self.retries = 1

\* download() reading the registry as it was when the downloads began (a copy
\* per downloader in place of the shared object).
download_stale(j) ==
    /\ md[j].pc = "download"
    /\ LET self == md[j]
           is_offline == subdomain_is_offline(self.link, initial_status)
       IN  IF is_offline /\ is_final_attempt(self)
           THEN /\ md' = [md EXCEPT ![j] =
                        [self EXCEPT !.pc = "returned", !.result = "None",
                                     !.is_final_attempt = is_final_attempt(self),
                                     !.outcome = "Offline",
                                     !.tracker = update_task({}, FALSE)]]
                /\ session_log' = [session_log EXCEPT ![j] = @ + 1]
           ELSE /\ session_log' = session_log
                /\ IF skip_file_download(self, j \in files)
                   THEN md' = [md EXCEPT ![j] =
                        [self EXCEPT !.pc = "returned", !.result = "None",
                                     !.is_final_attempt = is_final_attempt(self),
                                     !.outcome = "Skipped",
                                     !.tracker = update_task({100}, FALSE)]]
                   ELSE md' = [md EXCEPT ![j] =
                        [self EXCEPT !.pc = "attempt", !.attempt = 0,
                                     !.budget = self.retries,
                                     !.is_final_attempt = is_final_attempt(self)]]
    /\ task_progress' =
        Follow(task_progress, j, TaskAfter(task_progress[j], md'[j]))
    /\ journal' =
        Follow(journal, j,
               EntryAfter(journal[j], md'[j], md'[j].pc = "returned"))
    /\ UNCHANGED <<semaphore, wpc, apc, retry_idx, failed_downloads,
                   bunkr_status, initial_status, down_seen, args, files, temps,
                   appended, retried, crypt, resolver, naming, paths>>
    /\ UNCHANGED <<writer, sizes>>

\* download(), up to the first iteration of attempt_download's loop: the
\* host pre-check and the skip check.
download(j) ==
    /\ md[j].pc = "download"
    /\ LET self == md[j]
           is_offline == subdomain_is_offline(self.link, bunkr_status)
       IN  IF is_offline /\ is_final_attempt(self)
           THEN /\ md' = [md EXCEPT ![j] =
                        [self EXCEPT !.pc = "returned", !.result = "None",
                                     !.is_final_attempt = is_final_attempt(self),
                                     !.outcome = "Offline",
                                     !.tracker = update_task({}, FALSE)]]
                /\ session_log' = [session_log EXCEPT ![j] = @ + 1]
           ELSE /\ session_log' = session_log
                /\ IF skip_file_download(self, j \in files)
                   THEN md' = [md EXCEPT ![j] =
                        [self EXCEPT !.pc = "returned", !.result = "None",
                                     !.is_final_attempt = is_final_attempt(self),
                                     !.outcome = "Skipped",
                                     !.tracker = update_task({100}, FALSE)]]
                   ELSE md' = [md EXCEPT ![j] =
                        [self EXCEPT !.pc = "attempt", !.attempt = 0,
                                     !.budget = self.retries,
                                     !.is_final_attempt = is_final_attempt(self)]]
    /\ task_progress' =
        Follow(task_progress, j, TaskAfter(task_progress[j], md'[j]))
    /\ journal' =
        Follow(journal, j,
               EntryAfter(journal[j], md'[j], md'[j].pc = "returned"))
    /\ UNCHANGED <<semaphore, wpc, apc, retry_idx, failed_downloads,
                   bunkr_status, initial_status, down_seen, args, files, temps,
                   appended, retried, crypt, resolver, naming, paths>>
    /\ UNCHANGED <<writer, sizes>>

\* One iteration of attempt_download's loop: requests.get, raise_for_status,
\* save_file_with_progress, and handle_request_exception for a RequestException
\* (up to its time.sleep, when it retries).
attempt_download(j) ==
    /\ md[j].pc = "attempt"
    /\ \E response \in Responses :
        LET self == [md[j] EXCEPT
                        !.gets = @ + 1, !.last = response.status,
                        !.limited = @ /\ response.status \in RateLimitStatuses]
            w == save_file_with_progress(response)
            ok == response.status = 200
            \* the status of the RequestException caught (0: response is None)
            status == IF ok THEN 0 ELSE response.status
            h == handle_request_exception(self, status, self.attempt)
        IN  /\ IF ok /\ w.raised = "os"
               THEN \* OSError leaves download()
                    /\ md' = [md EXCEPT ![j] =
                           [self EXCEPT !.pc = "raised", !.outcome = "Raised"]]
                    /\ temps' = temps \cup {j}
                    /\ UNCHANGED <<files, session_log, bunkr_status, down_seen>>
               ELSE IF ok /\ w.raised = "none"
               THEN \* the body was read to its end
                    /\ md' = [md EXCEPT ![j] =
                           [(IF w.partial THEN handle_partial_download(self)
                             ELSE [self EXCEPT !.outcome = "Success"])
                            EXCEPT !.pc = "returned", !.result = "None"]]
                    /\ files' = IF w.moved THEN files \cup {j} ELSE files
                    /\ temps' = IF w.moved THEN temps \ {j} ELSE temps \cup {j}
                    /\ session_log' = IF w.partial
                                      THEN [session_log EXCEPT ![j] = @ + 1]
                                      ELSE session_log
                    /\ UNCHANGED <<bunkr_status, down_seen>>
               ELSE \* a RequestException was caught
                    /\ bunkr_status' =
                           IF h.mark
                           THEN mark_subdomain_as_offline(bunkr_status, self.link)
                           ELSE bunkr_status
                    /\ down_seen' =
                           IF response.status \in {0, HTTP_STATUS_SERVER_DOWN}
                           THEN down_seen \cup {self.link.host} ELSE down_seen
                    /\ temps' = IF ok THEN temps \cup {j} ELSE temps
                    /\ IF h.retry
                       THEN \E jitter \in Jitter :
                               md' = [md EXCEPT ![j] =
                                   [self EXCEPT !.pc = "sleep",
                                       !.sleeps = @ + 1,
                                       !.delay = BackoffDelay(self.attempt, jitter)]]
                       ELSE md' = [md EXCEPT ![j] =
                               Failed([self EXCEPT !.retries = h.retries])]
                    /\ UNCHANGED <<files, session_log>>
            /\ task_progress' =
                   Follow(task_progress, j,
                       TaskAfter(IF ok
                                 THEN stream_updates(task_progress[j], response,
                                                     response.received)
                                 ELSE task_progress[j],
                                 md'[j]))
            /\ journal' =
                   Follow(journal, j,
                       EntryAfter([journal[j] EXCEPT !.gets = @ + 1], md'[j],
                                  \/ ~ ok
                                  \/ w.raised = "request"
                                  \/ w.raised = "none" /\ w.partial))
    /\ UNCHANGED <<semaphore, wpc, apc, retry_idx, failed_downloads,
                   initial_status, args, appended, retried, crypt, resolver,
                   naming, paths>>
    /\ UNCHANGED <<writer, sizes>>

\* time.sleep(delay) returns, handle_request_exception returns True and the loop
\* goes to its next iteration, or ends when range(self.retries) is exhausted.
sleep_returns(j) ==
    /\ md[j].pc = "sleep"
    /\ LET self == [md[j] EXCEPT !.attempt = @ + 1, !.delay = 0]
       IN  md' = [md EXCEPT ![j] =
                    IF self.attempt < self.budget
                    THEN [self EXCEPT !.pc = "attempt"]
                    ELSE Failed(self)]
    /\ task_progress' =
        Follow(task_progress, j, TaskAfter(task_progress[j], md'[j]))
    /\ journal' =
        Follow(journal, j,
               EntryAfter(journal[j], md'[j], md'[j].pc = "returned"))
    /\ UNCHANGED <<semaphore, wpc, apc, retry_idx, failed_downloads,
                   bunkr_status, initial_status, down_seen, args, files, temps,
                   session_log, appended, retried, crypt, resolver, naming,
                   paths>>
    /\ UNCHANGED <<writer, sizes>>

(***************************************************************************)
(* AlbumDownloader                                                         *)
(***************************************************************************)
\* The positions at which an execute_item_download coroutine holds a permit.
InSemaphore == {"fetch_page", "get_download_info", "download"}
\* The positions at which it has ended.
Ended == {"done", "raised", "cancelled"}

\* The dict handle_failed_download returns.
FailedDownload(self, task) ==
    [id |-> task, file_name |-> file_name(self.link),
     download_link |-> self.link]

\* An exception leaves a worker: asyncio.gather hands the first one to
\* download_album, which it leaves.  From then on the event loop is torn down
\* (cancel_all): the coroutines take no step but their cancellation.
GatherRaises == IF apc = "gather" THEN "raised" ELSE apc

\* acquire without the wait for a free permit.
acquire_unbounded(j) ==
    /\ apc \notin TornDown
    /\ wpc[j] = "pending"
    /\ \A i \in Items : i < j => wpc[i] # "pending"
    /\ semaphore' = semaphore - 1
    /\ wpc' = [wpc EXCEPT ![j] = "fetch_page"]
    /\ task_progress' = Follow(task_progress, j, add_task)
    /\ UNCHANGED <<apc, retry_idx, failed_downloads, md, bunkr_status,
                   initial_status, down_seen, args, files, temps, session_log,
                   appended, retried, crypt, resolver, journal, naming,
                   paths>>
    /\ UNCHANGED <<writer, sizes>>

\* "async with semaphore": the coroutine gets a permit.  The waiters of an
\* asyncio.Semaphore are served in the order they came, which is the order of
\* item_pages; live_manager.add_task follows.
acquire(j) ==
    /\ apc \notin TornDown
    /\ wpc[j] = "pending"
    /\ semaphore > 0
    /\ \A i \in Items : i < j => wpc[i] # "pending"
    /\ semaphore' = semaphore - 1
    /\ wpc' = [wpc EXCEPT ![j] = "fetch_page"]
    /\ task_progress' = Follow(task_progress, j, add_task)
    /\ UNCHANGED <<apc, retry_idx, failed_downloads, md, bunkr_status,
                   initial_status, down_seen, args, files, temps, session_log,
                   appended, retried, crypt, resolver, journal, naming,
                   paths>>
    /\ UNCHANGED <<writer, sizes>>

\* await fetch_page(item_page) returns (a document or None).
fetch_page(j) ==
    /\ apc \notin TornDown
    /\ wpc[j] = "fetch_page"
    /\ wpc' = [wpc EXCEPT ![j] = "get_download_info"]
    /\ UNCHANGED <<semaphore, apc, retry_idx, failed_downloads, md,
                   bunkr_status, initial_status, down_seen, args, files, temps,
                   session_log, appended, retried,
                   crypt, resolver, task_progress, journal, naming, paths>>
    /\ UNCHANGED <<writer, sizes>>

\* get_download_info whose exception leaves the worker with its permit held
\* (an acquire and a release without "async with").
get_download_info_leak(j) ==
    /\ apc \notin TornDown
    /\ wpc[j] = "get_download_info"
    /\ \/ \E host \in Hosts :
            /\ md' = [md EXCEPT ![j] =
                    MediaDownloader([item |-> j, host |-> host],
                                    DefaultRetries, args)]
            /\ wpc' = [wpc EXCEPT ![j] = "download"]
            /\ UNCHANGED <<semaphore, apc, journal>>
       \/ /\ wpc' = [wpc EXCEPT ![j] = "done"]
          /\ semaphore' = semaphore + 1
          /\ journal' = Follow(journal, j,
                               [journal[j] EXCEPT !.ended = "NoLink"])
          /\ UNCHANGED <<md, apc>>
       \/ /\ wpc' = [wpc EXCEPT ![j] = "raised"]
          /\ apc' = GatherRaises
          /\ journal' = Follow(journal, j,
                               [journal[j] EXCEPT !.ended = "Raised"])
          /\ UNCHANGED <<md, semaphore>>
    /\ UNCHANGED <<retry_idx, failed_downloads, bunkr_status, initial_status,
                   down_seen, args, files, temps, session_log, appended,
                   retried, crypt, resolver, task_progress, naming, paths>>
    /\ UNCHANGED <<writer, sizes>>

\* await get_download_info(item_soup) ends: with a download link (the worker
\* builds the MediaDownloader and starts its thread), with no link (the worker
\* leaves the semaphore), or with an exception (item_soup is None, an element is
\* missing).
get_download_info(j) ==
    /\ apc \notin TornDown
    /\ wpc[j] = "get_download_info"
    /\ \/ \E host \in Hosts :
            /\ md' = [md EXCEPT ![j] =
                    MediaDownloader([item |-> j, host |-> host],
                                    DefaultRetries, args)]
            /\ wpc' = [wpc EXCEPT ![j] = "download"]
            /\ UNCHANGED <<semaphore, apc, journal>>
       \/ /\ wpc' = [wpc EXCEPT ![j] = "done"]
          /\ semaphore' = semaphore + 1
          /\ journal' = Follow(journal, j,
                               [journal[j] EXCEPT !.ended = "NoLink"])
          /\ UNCHANGED <<md, apc>>
       \/ /\ wpc' = [wpc EXCEPT ![j] = "raised"]
          /\ semaphore' = semaphore + 1
          /\ apc' = GatherRaises
          /\ journal' = Follow(journal, j,
                               [journal[j] EXCEPT !.ended = "Raised"])
          /\ UNCHANGED md
    /\ UNCHANGED <<retry_idx, failed_downloads, bunkr_status, initial_status,
                   down_seen, args, files, temps, session_log, appended,
                   retried, crypt, resolver, task_progress, naming, paths>>
    /\ UNCHANGED <<writer, sizes>>

\* download_returns storing the record in a list of its own in place of the
\* shared one (the record of a worker that ended before is lost).
download_returns_own_list(j) ==
    /\ apc \notin TornDown
    /\ wpc[j] = "download"
    /\ md[j].pc \in {"returned", "raised"}
    /\ semaphore' = semaphore + 1
    /\ md' = [md EXCEPT ![j] = NoDownloader]
    /\ IF md[j].pc = "raised"
       THEN /\ wpc' = [wpc EXCEPT ![j] = "raised"]
            /\ apc' = GatherRaises
            /\ UNCHANGED <<failed_downloads, appended>>
       ELSE /\ wpc' = [wpc EXCEPT ![j] = "done"]
            /\ apc' = apc
            /\ IF md[j].result = "FailedDownload"
               THEN /\ failed_downloads' = <<FailedDownload(md[j], j)>>
                    /\ appended' = [appended EXCEPT ![j] = @ + 1]
               ELSE UNCHANGED <<failed_downloads, appended>>
    /\ UNCHANGED <<retry_idx, bunkr_status, initial_status, down_seen, args,
                   files, temps, session_log, retried,
                   crypt, resolver, task_progress, journal, naming, paths>>
    /\ UNCHANGED <<writer, sizes>>

\* await asyncio.to_thread(downloader.download) returns or raises; a returned
\* FailedDownload is appended; the coroutine leaves the semaphore.
download_returns(j) ==
    /\ apc \notin TornDown
    /\ wpc[j] = "download"
    /\ md[j].pc \in {"returned", "raised"}
    /\ semaphore' = semaphore + 1
    /\ md' = [md EXCEPT ![j] = NoDownloader]
    /\ IF md[j].pc = "raised"
       THEN /\ wpc' = [wpc EXCEPT ![j] = "raised"]
            /\ apc' = GatherRaises
            /\ UNCHANGED <<failed_downloads, appended>>
       ELSE /\ wpc' = [wpc EXCEPT ![j] = "done"]
            /\ apc' = apc
            /\ IF md[j].result = "FailedDownload"
               THEN /\ failed_downloads' =
                        Append(failed_downloads, FailedDownload(md[j], j))
                    /\ appended' = [appended EXCEPT ![j] = @ + 1]
               ELSE UNCHANGED <<failed_downloads, appended>>
    /\ UNCHANGED <<retry_idx, bunkr_status, initial_status, down_seen, args,
                   files, temps, session_log, retried,
                   crypt, resolver, task_progress, journal, naming, paths>>
    /\ UNCHANGED <<writer, sizes>>

\* retry_failed_download making its downloader with the default budget.
retry_failed_download_default(data) ==
    /\ md' = [md EXCEPT ![data.id] =
                MediaDownloader(data.download_link, DefaultRetries, NoArgs)]
    /\ retried' = [retried EXCEPT ![data.id] = @ + 1]

\* retry_failed_download(data['id'], data['file_name'], data['download_link']):
\* a MediaDownloader with retries = 1 and no filter configuration, run in a
\* thread.
retry_failed_download(data) ==
    /\ md' = [md EXCEPT ![data.id] =
                MediaDownloader(data.download_link, RetryOnce, NoArgs)]
    /\ retried' = [retried EXCEPT ![data.id] = @ + 1]

\* gather_returns as soon as one worker is done (a wait for the first).
gather_returns_first ==
    /\ apc = "gather"
    /\ \E j \in Items : wpc[j] = "done"
    /\ IF failed_downloads = <<>>
       THEN /\ apc' = "returned"
            /\ UNCHANGED <<retry_idx, md, retried>>
       ELSE /\ apc' = "retry"
            /\ retry_idx' = 1
            /\ retry_failed_download(failed_downloads[1])
    /\ UNCHANGED <<semaphore, wpc, failed_downloads, bunkr_status,
                   initial_status, down_seen, args, files, temps, session_log,
                   appended,
                   crypt, resolver, task_progress, journal, naming, paths>>
    /\ UNCHANGED <<writer, sizes>>

\* asyncio.gather returns: every worker has ended without an exception.
\* download_album returns when failed_downloads is empty, and else enters
\* process_failed_downloads, whose loop starts the first retry.
gather_returns ==
    /\ apc = "gather"
    /\ \A j \in Items : wpc[j] = "done"
    /\ IF failed_downloads = <<>>
       THEN /\ apc' = "returned"
            /\ UNCHANGED <<retry_idx, md, retried>>
       ELSE /\ apc' = "retry"
            /\ retry_idx' = 1
            /\ retry_failed_download(failed_downloads[1])
    /\ UNCHANGED <<semaphore, wpc, failed_downloads, bunkr_status,
                   initial_status, down_seen, args, files, temps, session_log,
                   appended,
                   crypt, resolver, task_progress, journal, naming, paths>>
    /\ UNCHANGED <<writer, sizes>>

\* The retry awaited by process_failed_downloads has ended: the loop goes to
\* the next record, or the list is cleared and download_album returns.  An
\* exception of the retry leaves process_failed_downloads and download_album.
retry_returns ==
    /\ apc = "retry"
    /\ LET data == failed_downloads[retry_idx]
           cleared == [md EXCEPT ![data.id] = NoDownloader]
       IN  /\ md[data.id].pc \in {"returned", "raised"}
           /\ IF md[data.id].pc = "raised"
              THEN /\ apc' = "raised"
                   /\ md' = cleared
                   /\ UNCHANGED <<retry_idx, failed_downloads, retried>>
              ELSE IF retry_idx < Len(failed_downloads)
              THEN /\ retry_idx' = retry_idx + 1
                   /\ md' = [cleared EXCEPT ![failed_downloads[retry_idx + 1].id] =
                        MediaDownloader(
                            failed_downloads[retry_idx + 1].download_link,
                            RetryOnce, NoArgs)]
                   /\ retried' = [retried EXCEPT
                        ![failed_downloads[retry_idx + 1].id] = @ + 1]
                   /\ UNCHANGED <<apc, failed_downloads>>
              ELSE /\ failed_downloads' = <<>>
                   /\ apc' = "returned"
                   /\ md' = cleared
                   /\ UNCHANGED <<retry_idx, retried>>
    /\ UNCHANGED <<semaphore, wpc, bunkr_status, initial_status, down_seen,
                   args, files, temps, session_log, appended,
                   crypt, resolver, task_progress, journal, naming, paths>>
    /\ UNCHANGED <<writer, sizes>>

\* download_album was left by an exception, which nothing above it catches:
\* asyncio.run cancels every task still running.  A cancelled coroutine leaves
\* "async with" (and gives its permit back); the thread of its download is not
\* stopped.
cancel_all ==
    /\ apc = "raised"
    /\ \E j \in Items : wpc[j] \notin Ended
    /\ wpc' = [j \in Items |->
                IF wpc[j] \in Ended THEN wpc[j] ELSE "cancelled"]
    /\ semaphore' =
        semaphore + Cardinality({j \in Items : wpc[j] \in InSemaphore})
    /\ UNCHANGED <<apc, retry_idx, failed_downloads, md, bunkr_status,
                   initial_status, down_seen, args, files, temps, session_log,
                   appended, retried,
                   crypt, resolver, task_progress, journal, naming, paths>>
    /\ UNCHANGED <<writer, sizes>>

\* The user interrupts the program (SIGINT) while download_album runs: the
\* main task is cancelled (or KeyboardInterrupt is raised in it) and asyncio.run
\* cancels every task still running, before any of them takes another step.
keyboard_interrupt ==
    /\ apc \in {"gather", "retry"}
    /\ apc' = "interrupted"
    /\ wpc' = [j \in Items |->
                IF wpc[j] \in Ended THEN wpc[j] ELSE "cancelled"]
    /\ semaphore' =
        semaphore + Cardinality({j \in Items : wpc[j] \in InSemaphore})
    /\ UNCHANGED <<retry_idx, failed_downloads, md, bunkr_status,
                   initial_status, down_seen, args, files, temps, session_log,
                   appended, retried, writer, sizes, crypt, resolver,
                   task_progress, journal, naming, paths>>

\* The worker threads that have not returned from download().
Running == {j \in Items : md[j].pc \in {"download", "attempt", "sleep"}}

\* The exit after an interrupt reporting success.
sys_exit_zero ==
    /\ apc = "interrupted"
    /\ \A j \in Items : wpc[j] \in Ended
    /\ Running = {}
    /\ apc' = "exit 0"
    /\ UNCHANGED temps
    /\ UNCHANGED <<semaphore, wpc, retry_idx, failed_downloads, md,
                   bunkr_status, initial_status, down_seen, args, files,
                   session_log, appended, retried, writer, sizes, crypt,
                   resolver, task_progress, journal, naming, paths>>

\* The process exits after the interrupt, every coroutine cancelled and every
\* worker thread joined (asyncio.run shuts the default executor down, and the
\* interpreter joins its threads): by sys.exit(1) of main's except clause, or
\* with KeyboardInterrupt leaving asyncio.run (the status of a process ended
\* by SIGINT).
sys_exit ==
    /\ apc = "interrupted"
    /\ \A j \in Items : wpc[j] \in Ended
    /\ Running = {}
    /\ apc' \in {"exit 1", "exit 130"}
    /\ UNCHANGED temps
    /\ UNCHANGED <<semaphore, wpc, retry_idx, failed_downloads, md,
                   bunkr_status, initial_status, down_seen, args, files,
                   session_log, appended, retried, writer, sizes, crypt,
                   resolver, task_progress, journal, naming, paths>>

(***************************************************************************)
(* Chunked file writer: get_chunk_size and save_file_with_progress, one    *)
(* call chunk by chunk.  A chunk is one unit of the body.                  *)
(***************************************************************************)
KB == 1024
MB == 1024 * KB
GB == 1024 * MB

\* (size threshold, chunk size) pairs, and the chunk size above the last one.
THRESHOLDS ==
    << <<1 * MB, 32 * KB>>, <<10 * MB, 128 * KB>>, <<50 * MB, 512 * KB>>,
       <<100 * MB, 1 * MB>>, <<250 * MB, 2 * MB>>, <<500 * MB, 4 * MB>>,
       <<1 * GB, 8 * MB>> >>
LARGE_FILE_CHUNK_SIZE == 16 * MB

\* get_chunk_size with the comparison turned round.
get_chunk_size_above(file_size) ==
    LET hits == {i \in 1..Len(THRESHOLDS) : file_size > THRESHOLDS[i][1]}
    IN  IF hits = {} THEN LARGE_FILE_CHUNK_SIZE
        ELSE THRESHOLDS[CHOOSE i \in hits : \A k \in hits : i <= k][2]

\* get_chunk_size(file_size): the chunk size of the first threshold the size
\* is below, and the large chunk size when there is none.
get_chunk_size(file_size) ==
    LET hits == {i \in 1..Len(THRESHOLDS) : file_size < THRESHOLDS[i][1]}
    IN  IF hits = {} THEN LARGE_FILE_CHUNK_SIZE
        ELSE THRESHOLDS[CHOOSE i \in hits : \A k \in hits : i <= k][2]

\* The table get_chunk_size holds inline in helpers/downloaders/download_utils
\* (the revision media_downloader imports), and that function.
thresholds ==
    << <<1 * MB, 16 * KB>>, <<10 * MB, 64 * KB>>, <<50 * MB, 128 * KB>>,
       <<100 * MB, 256 * KB>>, <<250 * MB, 512 * KB>> >>

get_chunk_size_inline(file_size) ==
    LET hits == {i \in 1..Len(thresholds) : file_size < thresholds[i][1]}
    IN  IF hits = {} THEN 1 * MB
        ELSE thresholds[CHOOSE i \in hits : \A k \in hits : i <= k][2]

\* The file sizes get_chunk_size is tried with: no content-length (-1), the
\* empty file, and the sizes within SizeSpread of every threshold.
SampleSizes ==
    {-1, 0} \cup
    {THRESHOLDS[i][1] + d : i \in 1..Len(THRESHOLDS),
                            d \in (0 - SizeSpread)..SizeSpread}

NoSizes ==
    [pc |-> "none", s1 |-> 0, s2 |-> 0, c1 |-> 0, c2 |-> 0, i1 |-> 0, i2 |-> 0]

\* chunk_size = get_chunk_size(file_size), for two file sizes and by either
\* revision of the function (c: the table of config, i: the inline table).
call_get_chunk_size ==
    /\ sizes.pc = "call"
    /\ sizes' = [sizes EXCEPT !.pc = "called",
                              !.c1 = get_chunk_size(sizes.s1),
                              !.c2 = get_chunk_size(sizes.s2),
                              !.i1 = get_chunk_size_inline(sizes.s1),
                              !.i2 = get_chunk_size_inline(sizes.s2)]
    /\ UNCHANGED <<semaphore, wpc, apc, retry_idx, failed_downloads, md,
                   bunkr_status, initial_status, down_seen, args, files, temps,
                   session_log, appended, retried, writer,
                   crypt, resolver, task_progress, journal, naming, paths>>

\* A path that does not exist has -1 bytes.
Absent == 0 - 1

\* file_size: the content-length header (-1 when missing); body: the chunks
\* the stream delivers before it ends; ending: how it ends ("eof", "abort":
\* iter_content raises a RequestException, "oserror": the write raises);
\* temp, final: the bytes at the .temp path and at the final path; sink: the
\* values passed to progress_manager.update_task; raised: the exception that
\* left the call; partial: the value returned; moved: shutil.move was called.
NoWriter ==
    [pc |-> "none", file_size |-> 0, body |-> 0, ending |-> "eof",
     total_downloaded |-> 0, sink |-> <<>>, temp |-> Absent, final |-> Absent,
     final_before |-> Absent, raised |-> "none", partial |-> FALSE,
     moved |-> FALSE]

\* temp_download_path.open("wb"): the temp file is created or truncated.
open_temp ==
    /\ writer.pc = "open"
    /\ writer' = [writer EXCEPT !.pc = "iter", !.temp = 0]
    /\ UNCHANGED <<semaphore, wpc, apc, retry_idx, failed_downloads, md,
                   bunkr_status, initial_status, down_seen, args, files, temps,
                   session_log, appended, retried, sizes,
                   crypt, resolver, task_progress, journal, naming, paths>>

\* One iteration of "for chunk in response.iter_content": the chunk is
\* written, counted and reported; the division raises when file_size is 0.
write_chunk ==
    /\ writer.pc = "iter"
    /\ writer.total_downloaded < writer.body
    /\ LET total_downloaded == writer.total_downloaded + 1
           w == [writer EXCEPT !.temp = @ + 1,
                               !.total_downloaded = total_downloaded]
       IN  writer' =
            IF writer.file_size = 0
            THEN [w EXCEPT !.pc = "raised", !.raised = "ZeroDivisionError"]
            ELSE [w EXCEPT !.sink =
                    Append(@, Percentage(total_downloaded, writer.file_size))]
    /\ UNCHANGED <<semaphore, wpc, apc, retry_idx, failed_downloads, md,
                   bunkr_status, initial_status, down_seen, args, files, temps,
                   session_log, appended, retried, sizes,
                   crypt, resolver, task_progress, journal, naming, paths>>

\* The stream delivers no further chunk: it is exhausted (the loop and the
\* "with" block end), or iter_content raises, or the write raises.
iter_content_ends ==
    /\ writer.pc = "iter"
    /\ writer.total_downloaded = writer.body
    /\ writer' =
        IF writer.ending = "eof" THEN [writer EXCEPT !.pc = "check"]
        ELSE IF writer.ending = "abort"
        THEN [writer EXCEPT !.pc = "raised", !.raised = "RequestException"]
        ELSE [writer EXCEPT !.pc = "raised", !.raised = "OSError"]
    /\ UNCHANGED <<semaphore, wpc, apc, retry_idx, failed_downloads, md,
                   bunkr_status, initial_status, down_seen, args, files, temps,
                   session_log, appended, retried, sizes,
                   crypt, resolver, task_progress, journal, naming, paths>>

\* move_or_keep moving the temp file whatever was written.
move_always ==
    /\ writer.pc = "check"
    /\ writer' = [writer EXCEPT !.pc = "done", !.final = writer.temp,
                                !.temp = Absent, !.moved = TRUE,
                                !.partial = FALSE]
    /\ UNCHANGED <<semaphore, wpc, apc, retry_idx, failed_downloads, md,
                   bunkr_status, initial_status, down_seen, args, files, temps,
                   session_log, appended, retried, sizes,
                   crypt, resolver, task_progress, journal, naming, paths>>

\* After the loop: the temp file is moved to the final path and False is
\* returned when total_downloaded == file_size, and else True is returned.
move_or_keep ==
    /\ writer.pc = "check"
    /\ writer' =
        IF writer.total_downloaded = writer.file_size
        THEN [writer EXCEPT !.pc = "done", !.final = writer.temp,
                            !.temp = Absent, !.moved = TRUE,
                            !.partial = FALSE]
        ELSE [writer EXCEPT !.pc = "done", !.partial = TRUE]
    /\ UNCHANGED <<semaphore, wpc, apc, retry_idx, failed_downloads, md,
                   bunkr_status, initial_status, down_seen, args, files, temps,
                   session_log, appended, retried, sizes,
                   crypt, resolver, task_progress, journal, naming, paths>>

(***************************************************************************)
(* Link decryption (crawlers.api_utils.decrypt_url).  Text is a sequence   *)
(* of code points, a byte string a sequence of numbers 0..255, base64 text *)
(* a sequence of alphabet indices 0..63 with Pad for "=".                  *)
(***************************************************************************)
Pad == 64
SecondsPerHour == 3600

RECURSIVE BitXor(_, _, _)
BitXor(a, b, bits) ==
    IF bits = 0 THEN 0
    ELSE (((a % 2) + (b % 2)) % 2) + 2 * BitXor(a \div 2, b \div 2, bits - 1)

\* byte ^ key_byte
xor(a, b) == BitXor(a, b, 8)

\* str.encode("utf-8") for code points below 65536.
RECURSIVE utf8_encode(_)
utf8_encode(text) ==
    IF text = <<>> THEN <<>>
    ELSE LET cp == Head(text)
             bytes == IF cp < 128 THEN <<cp>>
                      ELSE IF cp < 2048
                      THEN <<192 + (cp \div 64), 128 + (cp % 64)>>
                      ELSE <<224 + (cp \div 4096), 128 + ((cp \div 64) % 64),
                             128 + (cp % 64)>>
         IN  bytes \o utf8_encode(Tail(text))

IsContinuation(bytes, i) ==
    i <= Len(bytes) /\ bytes[i] >= 128 /\ bytes[i] < 192

\* bytes.decode("utf-8", errors = "ignore"): a byte that does not begin a
\* well-formed sequence is dropped.
RECURSIVE utf8_decode(_)
utf8_decode(bytes) ==
    IF bytes = <<>> THEN <<>>
    ELSE LET b == Head(bytes)
             two == (b - 192) * 64 + (bytes[2] - 128)
             three == (b - 224) * 4096 + (bytes[2] - 128) * 64
                      + (bytes[3] - 128)
             four == (b - 240) * 262144 + (bytes[2] - 128) * 4096
                     + (bytes[3] - 128) * 64 + (bytes[4] - 128)
         IN  IF b < 128 THEN <<b>> \o utf8_decode(Tail(bytes))
             ELSE IF b >= 194 /\ b < 224 /\ IsContinuation(bytes, 2)
             THEN <<two>> \o utf8_decode(SubSeq(bytes, 3, Len(bytes)))
             ELSE IF /\ b >= 224 /\ b < 240
                     /\ IsContinuation(bytes, 2) /\ IsContinuation(bytes, 3)
                     /\ three >= 2048 /\ (three < 55296 \/ three > 57343)
             THEN <<three>> \o utf8_decode(SubSeq(bytes, 4, Len(bytes)))
             ELSE IF /\ b >= 240 /\ b < 245
                     /\ IsContinuation(bytes, 2) /\ IsContinuation(bytes, 3)
                     /\ IsContinuation(bytes, 4)
                     /\ four >= 65536 /\ four < 1114112
             THEN <<four>> \o utf8_decode(SubSeq(bytes, 5, Len(bytes)))
             ELSE utf8_decode(Tail(bytes))

\* base64.b64encode: three bytes make four characters, a shorter last group
\* is padded.
RECURSIVE b64encode(_)
b64encode(bytes) ==
    IF bytes = <<>> THEN <<>>
    ELSE LET k == IF Len(bytes) < 3 THEN Len(bytes) ELSE 3
             at(i) == IF i <= k THEN bytes[i] ELSE 0
             bits == at(1) * 65536 + at(2) * 256 + at(3)
             group == <<bits \div 262144, (bits \div 4096) % 64,
                        IF k >= 2 THEN (bits \div 64) % 64 ELSE Pad,
                        IF k >= 3 THEN bits % 64 ELSE Pad>>
         IN  group \o b64encode(SubSeq(bytes, k + 1, Len(bytes)))

\* base64.b64decode of well-formed text: four characters make three bytes,
\* less for a padded group.
RECURSIVE b64decode(_)
b64decode(chars) ==
    IF Len(chars) < 4 THEN <<>>
    ELSE LET val(i) == IF chars[i] = Pad THEN 0 ELSE chars[i]
             bits == val(1) * 262144 + val(2) * 4096 + val(3) * 64 + val(4)
             k == IF chars[3] = Pad THEN 1 ELSE IF chars[4] = Pad THEN 2 ELSE 3
             group == <<bits \div 65536, (bits \div 256) % 256, bits % 256>>
         IN  SubSeq(group, 1, k) \o b64decode(SubSeq(chars, 5, Len(chars)))

\* str(n) of an integer, as the f-string renders it.
RECURSIVE Decimal(_)
Decimal(n) ==
    IF n < 0 THEN <<45>> \o Decimal(0 - n)
    ELSE IF n < 10 THEN <<48 + n>>
    ELSE Decimal(n \div 10) \o <<48 + (n % 10)>>

\* "SECRET_KEY_"
SecretPrefix == <<83, 69, 67, 82, 69, 84, 95, 75, 69, 89, 95>>

\* The decrypting XOR applied to the first len(key) bytes only.
xor_once(encrypted_bytes, secret_key_bytes) ==
    [i \in 1..Len(encrypted_bytes) |->
        IF i <= Len(secret_key_bytes)
        THEN xor(encrypted_bytes[i], secret_key_bytes[i])
        ELSE encrypted_bytes[i]]

\* bytearray(byte ^ next(cycled_key) for byte in encrypted_bytes)
xor_cycle(encrypted_bytes, secret_key_bytes) ==
    [i \in 1..Len(encrypted_bytes) |->
        xor(encrypted_bytes[i],
            secret_key_bytes[((i - 1) % Len(secret_key_bytes)) + 1])]

\* An API payload: the keys it has and their values.
Payload(keys, timestamp, url) ==
    [keys |-> keys, timestamp |-> timestamp, url |-> url]

\* decrypt_url(api_response): None when a key is missing (KeyError), else the
\* decoded text.
decrypt_url(api_response) ==
    IF ~ ({"timestamp", "url"} \subseteq api_response.keys)
    THEN [none |-> TRUE, text |-> <<>>]
    ELSE LET timestamp == api_response.timestamp
             encrypted_bytes == b64decode(api_response.url)
             time_key == timestamp \div SecondsPerHour
             secret_key == SecretPrefix \o Decimal(time_key)
             secret_key_bytes == utf8_encode(secret_key)
             decrypted_url == xor_cycle(encrypted_bytes, secret_key_bytes)
         IN  [none |-> FALSE, text |-> utf8_decode(decrypted_url)]

\* The service's side of the scheme: the bytes of the plaintext XOR-ed with the
\* repeated bytes of "SECRET_KEY_" + floor(t / 3600), base64-encoded.
hourly_key(t) == utf8_encode(SecretPrefix \o Decimal(t \div SecondsPerHour))

encrypt_url(plaintext, t) ==
    LET bytes == utf8_encode(plaintext)
        key == hourly_key(t)
    IN  b64encode([i \in 1..Len(bytes) |->
                    xor(bytes[i], key[((i - 1) % Len(key)) + 1])])

\* Plaintext URLs: short texts over "/", "h" and the two-byte "e-acute", on
\* their own and after "https://cdn/" (longer than the key, so the key
\* repeats).
UrlChars == {47, 104, 233}
UrlPrefix == <<104, 116, 116, 112, 115, 58, 47, 47, 99, 100, 110, 47>>
ShortTexts == UNION {[1..k -> UrlChars] : k \in 0..MaxLen}
Plaintexts == ShortTexts \cup {UrlPrefix \o text : text \in ShortTexts}

\* Timestamps of the payload: two of one hour, the next hour, a later hour
\* whose index has two digits.
Timestamps == {0, 3599, 3600, 36000}

NoCrypt ==
    [pc |-> "none", plaintext |-> <<>>, t |-> 0, keys |-> {},
     api_response |-> Payload({}, 0, <<>>),
     result |-> [none |-> TRUE, text |-> <<>>]]

\* The API answers 200 with a payload holding the keys crypt.keys.
get_api_response ==
    /\ crypt.pc = "post"
    /\ crypt' = [crypt EXCEPT
            !.pc = "decrypt",
            !.api_response =
                Payload(crypt.keys, crypt.t,
                        encrypt_url(crypt.plaintext, crypt.t))]
    /\ UNCHANGED <<semaphore, wpc, apc, retry_idx, failed_downloads, md,
                   bunkr_status, initial_status, down_seen, args, files, temps,
                   session_log, appended, retried, writer, sizes, resolver,
                   task_progress, journal, naming, paths>>

call_decrypt_url ==
    /\ crypt.pc = "decrypt"
    /\ crypt' = [crypt EXCEPT !.pc = "done",
                              !.result = decrypt_url(crypt.api_response)]
    /\ UNCHANGED <<semaphore, wpc, apc, retry_idx, failed_downloads, md,
                   bunkr_status, initial_status, down_seen, args, files, temps,
                   session_log, appended, retried, writer, sizes, resolver,
                   task_progress, journal, naming, paths>>

(***************************************************************************)
(* Link resolver (helpers.crawlers.crawler_utils) and file names           *)
(* (helpers.general_utils).  A name is a sequence of code points.          *)
(***************************************************************************)
Dot == 46
Slash == 47
Hyphen == 45
MAX_FILENAME_LEN == 120

LastIndex(text, c) ==
    LET at == {i \in 1..Len(text) : text[i] = c}
    IN  IF at = {} THEN 0 ELSE CHOOSE i \in at : \A k \in at : k <= i

\* os.path.splitext: the extension begins at the last dot of the last path
\* component, unless only dots come before it in that component.
splitext(p) ==
    LET sepIndex == LastIndex(p, Slash)
        dotIndex == LastIndex(p, Dot)
    IN  IF /\ dotIndex > sepIndex
           /\ \E i \in (sepIndex + 1)..(dotIndex - 1) : p[i] # Dot
        THEN <<SubSeq(p, 1, dotIndex - 1), SubSeq(p, dotIndex, Len(p))>>
        ELSE <<p, <<>>>>

\* a in b, for str
Contains(a, b) ==
    \E i \in 0..(Len(b) - Len(a)) : SubSeq(b, i + 1, i + Len(a)) = a

\* format_item_filename keeping the extension of the URL-based name.
format_item_filename_url_extension(original_filename, url_based_filename) ==
    IF original_filename = url_based_filename THEN original_filename
    ELSE LET original_base == splitext(original_filename)[1]
             url_base == splitext(url_based_filename)[1]
             extension == splitext(url_based_filename)[2]
         IN  IF Contains(original_base, url_base) THEN url_based_filename
             ELSE original_base \o <<Hyphen>> \o url_base \o extension

format_item_filename(original_filename, url_based_filename) ==
    IF original_filename = url_based_filename THEN original_filename
    ELSE LET original_base == splitext(original_filename)[1]
             extension == splitext(original_filename)[2]
             url_base == splitext(url_based_filename)[1]
         IN  IF Contains(original_base, url_base) THEN url_based_filename
             ELSE original_base \o <<Hyphen>> \o url_base \o extension

\* re.sub(r"[^a-zA-Z0-9 _-]", "", text)
ValidCharacters ==
    (48..57) \cup (65..90) \cup (97..122) \cup {32, 95, Hyphen}

remove_invalid_characters(text) ==
    SelectSeq(text, LAMBDA c : c \in ValidCharacters)

\* Path(filename).suffix and .stem of a name without directories: the suffix
\* begins at the last dot unless that dot is the first or the last character.
PathSuffix(filename) ==
    LET i == LastIndex(filename, Dot)
    IN  IF 1 < i /\ i < Len(filename)
        THEN SubSeq(filename, i, Len(filename)) ELSE <<>>

PathStem(filename) ==
    SubSeq(filename, 1, Len(filename) - Len(PathSuffix(filename)))

\* text[:stop]: a negative stop counts from the end.
Slice(text, stop) ==
    IF stop >= 0 THEN SubSeq(text, 1, stop)
    ELSE SubSeq(text, 1, Len(text) + stop)

\* truncate_filename(filename) of a non-empty name without directories.
truncate_filename(filename) ==
    LET name == remove_invalid_characters(PathStem(filename))
        extension == PathSuffix(filename)
        available_len == MAX_FILENAME_LEN - Len(extension)
    IN  (IF Len(name) > MAX_FILENAME_LEN THEN Slice(name, available_len)
         ELSE name) \o extension

\* What a resolver function does: the exception that leaves it ("none" when it
\* returns), whether the link it returns is a link (not None), the file name.
Returned(link, filename) ==
    [raised |-> "none", link |-> link, filename |-> filename]
Raised(exception) == [raised |-> exception, link |-> FALSE, filename |-> <<>>]

\* get_non_media_download_link(item_soup): None["href"] when the first button
\* is missing, None.find when the second page could not be fetched, None["href"]
\* when the second page has no button.
get_non_media_download_link(item_soup) ==
    IF ~ item_soup.button THEN Raised("TypeError")
    ELSE IF item_soup.second = "None" THEN Raised("AttributeError")
    ELSE IF item_soup.second = "no button" THEN Raised("TypeError")
    ELSE Returned(TRUE, <<>>)

\* get_item_download_link(item_soup): get_item_container is called outside the
\* try block, the except clause catches AttributeError only.
get_item_download_link(item_soup) ==
    IF ~ item_soup.fetched THEN Raised("AttributeError")
    ELSE IF item_soup.media = "none"
    THEN get_non_media_download_link(item_soup)
    ELSE IF item_soup.media = "valid" THEN Returned(TRUE, <<>>)
    ELSE LET link == get_non_media_download_link(item_soup)
         IN  IF link.raised = "AttributeError" THEN Returned(FALSE, <<>>)
             ELSE link

\* get_item_filename(item_soup): None.get_text() when the title is missing.
get_item_filename(item_soup) ==
    IF item_soup.title THEN Returned(FALSE, item_soup.html_name)
    ELSE Raised("AttributeError")

\* get_download_info(item_soup): without a link url_based_filename is None and
\* os.path.splitext(None) raises TypeError.
download_info(item_soup) ==
    LET item_download_link == get_item_download_link(item_soup)
        item_filename == get_item_filename(item_soup)
    IN  IF item_download_link.raised # "none" THEN item_download_link
        ELSE IF item_filename.raised # "none" THEN item_filename
        ELSE IF ~ item_download_link.link THEN Raised("TypeError")
        ELSE Returned(TRUE, format_item_filename(item_filename.filename,
                                                 item_soup.url_name))

\* File names: the short names over "a", "b" and ".", the names of the
\* reconciliation examples, a name with a character no file system takes, a
\* name longer than MAX_FILENAME_LEN.
NameChars == {97, 98, Dot}
Mp4 == <<Dot, 109, 112, 52>>
SampleNames ==
    {<<118, 105, 100, 101, 111>> \o Mp4,
     <<99, 108, 105, 112>>,
     <<99, 108, 105, 112, 95, 102, 117, 108, 108>> \o Mp4,
     <<97, 108, 112, 104, 97>> \o Mp4,
     <<98, 101, 116, 97>> \o Mp4,
     <<97, 63>> \o Mp4,
     [i \in 1..(MAX_FILENAME_LEN + 1) |-> 97] \o Mp4}
Names == UNION {[1..k -> NameChars] : k \in 0..MaxLen} \cup SampleNames

\* An item page as fetch_page delivered it (fetched is FALSE for None): its
\* media element ("valid": validate_download_link accepts its src), its
\* download button, the page behind the button, its title.
Pages ==
    [fetched : BOOLEAN, media : {"none", "valid", "down"}, button : BOOLEAN,
     second : {"None", "no button", "button"}, title : BOOLEAN]
FullPage ==
    [fetched |-> TRUE, media |-> "valid", button |-> TRUE,
     second |-> "button", title |-> TRUE]

NoInfo == [pc |-> "none", item_soup |-> FullPage @@ [html_name |-> <<>>,
                                                      url_name |-> <<>>],
           info |-> Returned(FALSE, <<>>)]

\* item_download_link, item_file_name = await get_download_info(item_soup)
call_get_download_info ==
    /\ resolver.pc = "call"
    /\ resolver' = [resolver EXCEPT !.pc = "done",
                                    !.info = download_info(resolver.item_soup)]
    /\ UNCHANGED <<semaphore, wpc, apc, retry_idx, failed_downloads, md,
                   bunkr_status, initial_status, down_seen, args, files, temps,
                   session_log, appended, retried, writer, sizes, crypt,
                   task_progress, journal, naming, paths>>

\* The names truncate_filename is tried with: the file names above and the
\* names "aa...a.mp4" whose length is about MAX_FILENAME_LEN.
LongNames ==
    {[i \in 1..k |-> 97] \o Mp4 :
        k \in (MAX_FILENAME_LEN - Len(Mp4) - 1)..(MAX_FILENAME_LEN + 1)}
TruncateInputs == Names \cup LongNames

NoNaming == [pc |-> "none", filename |-> <<>>, result |-> <<>>]

\* formatted = truncate_filename(filename)
call_truncate_filename ==
    /\ naming.pc = "call"
    /\ naming' = [naming EXCEPT !.pc = "done",
                                !.result = truncate_filename(naming.filename)]
    /\ UNCHANGED <<semaphore, wpc, apc, retry_idx, failed_downloads, md,
                   bunkr_status, initial_status, down_seen, args, files, temps,
                   session_log, appended, retried, writer, sizes, crypt,
                   resolver, task_progress, journal, paths>>

\* ".temp"
TempSuffix == <<Dot, 116, 101, 109, 112>>

\* Path(download_path).with_suffix(suffix) of a file in the download
\* directory: the last suffix of the name is replaced, or the suffix is
\* added to a name that has none.  The directory is the same for all jobs and
\* is left out.
with_suffix(filename, suffix) == PathStem(filename) \o suffix

\* The file names a final path can end with: those with a character other
\* than a dot.
FileNames == {name \in Names : \E i \in 1..Len(name) : name[i] # Dot}

\* final: the final paths of the jobs in flight; temp: the temp path each
\* job's save_file_with_progress writes to, once it has derived it (opened).
NoPaths == [final |-> <<>>, temp |-> <<>>, opened |-> {}]

\* temp_download_path = Path(download_path).with_suffix(".temp"), and the
\* temp file is opened for writing, in the save_file_with_progress of job k.
derive_temp_download_path(k) ==
    /\ k \in DOMAIN paths.final
    /\ k \notin paths.opened
    /\ paths' = [paths EXCEPT
                    !.temp[k] = with_suffix(paths.final[k], TempSuffix),
                    !.opened = @ \cup {k}]
    /\ UNCHANGED <<semaphore, wpc, apc, retry_idx, failed_downloads, md,
                   bunkr_status, initial_status, down_seen, args, files, temps,
                   session_log, appended, retried, writer, sizes, crypt,
                   resolver, task_progress, journal, naming>>

(***************************************************************************)
(* Specifications                                                          *)
(***************************************************************************)
\* download_album(max_workers = MaxWorkers) has registered the overall task,
\* made the semaphore and handed one coroutine per item page to asyncio.gather.
Init ==
    /\ semaphore = MaxWorkers
    /\ wpc = [j \in Items |-> "pending"]
    /\ apc = "gather"
    /\ retry_idx = 0
    /\ failed_downloads = <<>>
    /\ md = [j \in Items |-> NoDownloader]
    /\ bunkr_status \in InitialStatuses
    /\ initial_status = bunkr_status
    /\ down_seen = {}
    /\ args \in AlbumArgs
    /\ files \in SUBSET Items
    /\ temps = {}
    /\ session_log = [j \in Items |-> 0]
    /\ appended = [j \in Items |-> 0]
    /\ retried = [j \in Items |-> 0]
    /\ writer = NoWriter
    /\ sizes = NoSizes
    /\ crypt = NoCrypt
    /\ resolver = NoInfo
    /\ naming = NoNaming
    /\ paths = NoPaths
    /\ task_progress = NotFollowed
    /\ journal = NotFollowed

Thread(j) == download(j) \/ attempt_download(j) \/ sleep_returns(j)

Next ==
    \/ \E j \in Items :
        \/ acquire(j)
        \/ fetch_page(j)
        \/ get_download_info(j)
        \/ download_returns(j)
        \/ Thread(j)
    \/ gather_returns
    \/ cancel_all
    \/ retry_returns

Spec == Init /\ [][Next]_vars

\* The album when every requests.get, every read of a body and every
\* time.sleep returns and the event loop keeps scheduling its coroutines: a
\* step that can be taken is taken in the end.
SpecFair == Init /\ [][Next]_vars /\ WF_vars(Next)

\* The same album with its progress display (add_overall_task has registered
\* the overall counter with total = len(item_pages)) and the journal of its
\* items followed, without filters; the file of the first item may have been
\* downloaded before.
InitLive ==
    /\ semaphore = MaxWorkers
    /\ wpc = [j \in Items |-> "pending"]
    /\ apc = "gather"
    /\ retry_idx = 0
    /\ failed_downloads = <<>>
    /\ md = [j \in Items |-> NoDownloader]
    /\ bunkr_status \in InitialStatuses
    /\ initial_status = bunkr_status
    /\ down_seen = {}
    /\ args = NoArgs
    /\ files \in SUBSET {1}
    /\ temps = {}
    /\ session_log = [j \in Items |-> 0]
    /\ appended = [j \in Items |-> 0]
    /\ retried = [j \in Items |-> 0]
    /\ writer = NoWriter
    /\ sizes = NoSizes
    /\ crypt = NoCrypt
    /\ resolver = NoInfo
    /\ naming = NoNaming
    /\ paths = NoPaths
    /\ task_progress = [j \in Items |-> NoTask]
    /\ journal = [j \in Items |-> NoEntry]

SpecLive == InitLive /\ [][Next]_vars

\* The album (without filters, every host operational) with the requests made
\* for its last item counted; the file of that item may have been downloaded
\* before.
InitCount ==
    /\ semaphore = MaxWorkers
    /\ wpc = [j \in Items |-> "pending"]
    /\ apc = "gather"
    /\ retry_idx = 0
    /\ failed_downloads = <<>>
    /\ md = [j \in Items |-> NoDownloader]
    /\ bunkr_status = [h \in Hosts |-> "Operational"]
    /\ initial_status = bunkr_status
    /\ down_seen = {}
    /\ args = NoArgs
    /\ files \in SUBSET {NItems}
    /\ temps = {}
    /\ session_log = [j \in Items |-> 0]
    /\ appended = [j \in Items |-> 0]
    /\ retried = [j \in Items |-> 0]
    /\ writer = NoWriter
    /\ sizes = NoSizes
    /\ crypt = NoCrypt
    /\ resolver = NoInfo
    /\ naming = NoNaming
    /\ paths = NoPaths
    /\ task_progress = NotFollowed
    /\ journal = [j \in {NItems} |-> NoEntry]

SpecCount == InitCount /\ [][Next]_vars

\* The album (without filters, no file downloaded before, every host
\* operational) run by main: the user may interrupt it.
InitInterrupt ==
    /\ semaphore = MaxWorkers
    /\ wpc = [j \in Items |-> "pending"]
    /\ apc = "gather"
    /\ retry_idx = 0
    /\ failed_downloads = <<>>
    /\ md = [j \in Items |-> NoDownloader]
    /\ bunkr_status = [h \in Hosts |-> "Operational"]
    /\ initial_status = bunkr_status
    /\ down_seen = {}
    /\ args = NoArgs
    /\ files = {}
    /\ temps = {}
    /\ session_log = [j \in Items |-> 0]
    /\ appended = [j \in Items |-> 0]
    /\ retried = [j \in Items |-> 0]
    /\ writer = NoWriter
    /\ sizes = NoSizes
    /\ crypt = NoCrypt
    /\ resolver = NoInfo
    /\ naming = NoNaming
    /\ paths = NoPaths
    /\ task_progress = NotFollowed
    /\ journal = NotFollowed

NextInterrupt == Next \/ keyboard_interrupt \/ sys_exit

SpecInterrupt == InitInterrupt /\ [][NextInterrupt]_vars

\* The album (without filters, no file downloaded before, every host
\* operational) downloaded by download_album(max_workers = 2): two workers
\* run side by side.
TwoWorkers == 2

InitShared ==
    /\ semaphore = TwoWorkers
    /\ wpc = [j \in Items |-> "pending"]
    /\ apc = "gather"
    /\ retry_idx = 0
    /\ failed_downloads = <<>>
    /\ md = [j \in Items |-> NoDownloader]
    /\ bunkr_status = [h \in Hosts |-> "Operational"]
    /\ initial_status = bunkr_status
    /\ down_seen = {}
    /\ args = NoArgs
    /\ files = {}
    /\ temps = {}
    /\ session_log = [j \in Items |-> 0]
    /\ appended = [j \in Items |-> 0]
    /\ retried = [j \in Items |-> 0]
    /\ writer = NoWriter
    /\ sizes = NoSizes
    /\ crypt = NoCrypt
    /\ resolver = NoInfo
    /\ naming = NoNaming
    /\ paths = NoPaths
    /\ task_progress = NotFollowed
    /\ journal = NotFollowed

SpecShared == InitShared /\ [][Next]_vars

\* One MediaDownloader of any retry budget and any filter configuration run on
\* its own (the download of a single file).
InitMD ==
    /\ semaphore = MaxWorkers
    /\ wpc = [j \in Items |-> "done"]
    /\ apc = "single"
    /\ retry_idx = 0
    /\ failed_downloads = <<>>
    /\ \E i \in Items, host \in Hosts, retries \in 1..MaxRetries,
          a \in ArgsChoices :
        md = [j \in Items |->
                IF j = i
                THEN MediaDownloader([item |-> i, host |-> host], retries, a)
                ELSE NoDownloader]
    /\ bunkr_status \in InitialStatuses
    /\ initial_status = bunkr_status
    /\ down_seen = {}
    /\ args = NoArgs
    /\ files \in SUBSET Items
    /\ temps = {}
    /\ session_log = [j \in Items |-> 0]
    /\ appended = [j \in Items |-> 0]
    /\ retried = [j \in Items |-> 0]
    /\ writer = NoWriter
    /\ sizes = NoSizes
    /\ crypt = NoCrypt
    /\ resolver = NoInfo
    /\ naming = NoNaming
    /\ paths = NoPaths
    /\ task_progress = NotFollowed
    /\ journal = NotFollowed

NextMD == \E j \in Items : Thread(j)

SpecMD == InitMD /\ [][NextMD]_vars

\* The state every specification leaves alone outside its own part.
Idle ==
    /\ semaphore = MaxWorkers
    /\ wpc = [j \in Items |-> "done"]
    /\ retry_idx = 0
    /\ failed_downloads = <<>>
    /\ down_seen = {}
    /\ args = NoArgs
    /\ temps = {}
    /\ session_log = [j \in Items |-> 0]
    /\ appended = [j \in Items |-> 0]
    /\ retried = [j \in Items |-> 0]
    /\ task_progress = NotFollowed
    /\ journal = NotFollowed

\* Two MediaDownloaders run side by side in worker threads on the shared
\* registry: job 1 of either budget the program uses, job 2 of budget 1.
InitPool ==
    /\ Idle
    /\ crypt = NoCrypt
    /\ resolver = NoInfo
    /\ naming = NoNaming
    /\ paths = NoPaths
    /\ apc = "pool"
    /\ \E h1 \in Hosts, h2 \in Hosts, retries \in {RetryOnce, DefaultRetries} :
        md = [j \in Items |->
                IF j = 1
                THEN MediaDownloader([item |-> 1, host |-> h1], retries, NoArgs)
                ELSE IF j = 2
                THEN MediaDownloader([item |-> 2, host |-> h2], RetryOnce,
                                     NoArgs)
                ELSE NoDownloader]
    /\ bunkr_status \in InitialStatuses
    /\ initial_status = bunkr_status
    /\ files = {}
    /\ writer = NoWriter
    /\ sizes = NoSizes

SpecPool == InitPool /\ [][NextMD]_vars

\* One save_file_with_progress call on a 200 response: any declared length,
\* any body, any ending; the final path does not exist or holds an older file.
InitWriter ==
    /\ Idle
    /\ crypt = NoCrypt
    /\ resolver = NoInfo
    /\ naming = NoNaming
    /\ paths = NoPaths
    /\ apc = "writer"
    /\ md = [j \in Items |-> NoDownloader]
    /\ bunkr_status = [h \in Hosts |-> "Operational"]
    /\ initial_status = bunkr_status
    /\ files = {}
    /\ \E file_size \in {-1} \cup 0..BodySize, body \in 0..BodySize,
          ending \in {"eof", "abort", "oserror"}, temp \in {Absent, 1},
          final \in {Absent, 1} :
        writer = [NoWriter EXCEPT !.pc = "open", !.file_size = file_size,
                                  !.body = body, !.ending = ending,
                                  !.temp = temp, !.final = final,
                                  !.final_before = final]
    /\ sizes = NoSizes

NextWriter == open_temp \/ write_chunk \/ iter_content_ends \/ move_or_keep

SpecWriter == InitWriter /\ [][NextWriter]_vars

\* get_chunk_size called with two file sizes.
InitChunk ==
    /\ Idle
    /\ crypt = NoCrypt
    /\ resolver = NoInfo
    /\ naming = NoNaming
    /\ paths = NoPaths
    /\ apc = "sizes"
    /\ md = [j \in Items |-> NoDownloader]
    /\ bunkr_status = [h \in Hosts |-> "Operational"]
    /\ initial_status = bunkr_status
    /\ files = {}
    /\ writer = NoWriter
    /\ \E s1 \in SampleSizes, s2 \in SampleSizes :
        sizes = [NoSizes EXCEPT !.pc = "call", !.s1 = s1, !.s2 = s2]

NextChunk == call_get_chunk_size

SpecChunk == InitChunk /\ [][NextChunk]_vars

\* One decrypt_url call on the payload the API made of a plaintext URL and a
\* timestamp; the payload may lack either key.
InitCrypt ==
    /\ Idle
    /\ apc = "crypt"
    /\ md = [j \in Items |-> NoDownloader]
    /\ bunkr_status = [h \in Hosts |-> "Operational"]
    /\ initial_status = bunkr_status
    /\ files = {}
    /\ writer = NoWriter
    /\ sizes = NoSizes
    /\ resolver = NoInfo
    /\ naming = NoNaming
    /\ paths = NoPaths
    /\ \E plaintext \in Plaintexts, t \in Timestamps,
          keys \in SUBSET {"timestamp", "url"} :
        crypt = [NoCrypt EXCEPT !.pc = "post", !.plaintext = plaintext,
                                !.t = t, !.keys = keys]

NextCrypt == get_api_response \/ call_decrypt_url

SpecCrypt == InitCrypt /\ [][NextCrypt]_vars

\* One get_download_info call: on a complete page with any two names, and
\* on a page of any shape with one pair of names.
InitResolver ==
    /\ Idle
    /\ apc = "resolver"
    /\ md = [j \in Items |-> NoDownloader]
    /\ bunkr_status = [h \in Hosts |-> "Operational"]
    /\ initial_status = bunkr_status
    /\ files = {}
    /\ writer = NoWriter
    /\ sizes = NoSizes
    /\ crypt = NoCrypt
    /\ naming = NoNaming
    /\ paths = NoPaths
    /\ \E page \in Pages, html_name \in Names, url_name \in Names :
        /\ page = FullPage \/ (html_name = <<97>> /\ url_name = <<98>>)
        /\ (~ page.fetched) =>
                page = [FullPage EXCEPT !.fetched = FALSE]
        /\ resolver = [NoInfo EXCEPT
                !.pc = "call",
                !.item_soup = page @@ [html_name |-> html_name,
                                       url_name |-> url_name]]

NextResolver == call_get_download_info

SpecResolver == InitResolver /\ [][NextResolver]_vars

\* One truncate_filename call on a file name.
InitNames ==
    /\ Idle
    /\ apc = "names"
    /\ md = [j \in Items |-> NoDownloader]
    /\ bunkr_status = [h \in Hosts |-> "Operational"]
    /\ initial_status = bunkr_status
    /\ files = {}
    /\ writer = NoWriter
    /\ sizes = NoSizes
    /\ crypt = NoCrypt
    /\ resolver = NoInfo
    /\ paths = NoPaths
    /\ \E filename \in TruncateInputs :
        naming = [NoNaming EXCEPT !.pc = "call", !.filename = filename]

SpecNames == InitNames /\ [][call_truncate_filename]_vars

\* Two jobs of an album in flight side by side, with different final paths in
\* the download directory, each about to write its response.
InitPaths ==
    /\ Idle
    /\ apc = "paths"
    /\ md = [j \in Items |-> NoDownloader]
    /\ bunkr_status = [h \in Hosts |-> "Operational"]
    /\ initial_status = bunkr_status
    /\ files = {}
    /\ writer = NoWriter
    /\ sizes = NoSizes
    /\ crypt = NoCrypt
    /\ resolver = NoInfo
    /\ naming = NoNaming
    /\ \E name1 \in FileNames, name2 \in FileNames :
        /\ name1 # name2
        /\ paths = [NoPaths EXCEPT !.final = <<name1, name2>>,
                                   !.temp = <<<<>>, <<>>>>]

NextPaths == \E k \in 1..2 : derive_temp_download_path(k)

SpecPaths == InitPaths /\ [][NextPaths]_vars

(***************************************************************************)
(* Properties                                                              *)
(***************************************************************************)
InFlight == {j \in Items : wpc[j] \in InSemaphore}
Pending == {j \in Items : wpc[j] = "pending"}
\* The downloader of item j belongs to the deferred retry pass.
IsRetry(j) == retried[j] > 0 /\ md[j].pc # "none"

C2_PermitReleasedOnEveryExit ==
    /\ semaphore = MaxWorkers - Cardinality(InFlight)
    /\ (\A j \in Items : wpc[j] \in Ended) => semaphore = MaxWorkers
    /\ (Pending # {} /\ InFlight = {}) => semaphore > 0

\* Every worker has ended, one by an exception raised in its pipeline and one
\* normally, and all permits are back.
C2_Witness ==
    /\ \A j \in Items : wpc[j] \in Ended
    /\ \E j \in Items : wpc[j] = "raised"
    /\ \E j \in Items : wpc[j] = "done"
    /\ semaphore = MaxWorkers

\* C3: a retry_failed_download begins only after every execute_item_download
\* of the album has finished: while the deferred pass runs, and once any retry
\* was started, no worker and no thread of the primary pass is running.
C3_RetryAfterPrimaryPass ==
    (apc = "retry" \/ \E j \in Items : retried[j] > 0) =>
        /\ \A j \in Items : wpc[j] = "done"
        /\ \A j \in Items : md[j].pc # "none" => IsRetry(j)

\* A retry is making its attempt.
C3_Witness ==
    /\ apc = "retry"
    /\ \E j \in Items : IsRetry(j) /\ md[j].pc = "attempt"

\* C4 (as claimed): every record appended to failed_downloads in the primary
\* pass is consumed exactly once by process_failed_downloads: once
\* download_album has ended and nothing runs any more, each appended record
\* was retried once and the list is empty.
C4_EveryRecordRetriedOnce ==
    (/\ apc \in {"returned", "raised"}
     /\ \A j \in Items : wpc[j] \in Ended /\ md[j].pc \in {"none", "returned", "raised"})
    => /\ \A j \in Items : retried[j] = appended[j]
       /\ failed_downloads = <<>>

\* C5: a download() of a MediaDownloader made with retries = 1 (the deferred
\* pass) never returns a FailedDownload, whatever the HTTP outcomes; no item is
\* appended to failed_downloads or retried a second time.
C5_NoRetryAfterDeferredPass ==
    \A j \in Items :
        /\ (IsRetry(j) /\ md[j].pc = "returned") => md[j].result = "None"
        /\ appended[j] <= 1
        /\ retried[j] <= 1
        /\ apc = "retry" =>
                Len(failed_downloads) =
                    Cardinality({i \in Items : appended[i] = 1})

\* An item failed in the primary pass and its one retry failed too.
C5_Witness ==
    \E j \in Items :
        /\ IsRetry(j)
        /\ md[j].pc = "returned"
        /\ md[j].outcome = "Failed"
        /\ md[j].gets = 1

\* C6: with retries = N >= 1 and only rate-limit answers (429, 503),
\* attempt_download makes exactly N GETs, sleeps exactly N - 1 times, never
\* after the last allowed attempt, and reports the failure.
C6_RateLimitedAttempts ==
    \A j \in Items :
        /\ (md[j].pc = "returned" /\ md[j].gets > 0 /\ md[j].limited) =>
                /\ md[j].gets = md[j].budget
                /\ md[j].retries = md[j].budget
                /\ md[j].sleeps = md[j].budget - 1
                /\ md[j].outcome \in {"Deferred", "Failed"}
        /\ md[j].pc = "sleep" => md[j].gets < md[j].budget

\* A downloader of the largest budget was rate-limited on every attempt.
C6_Witness ==
    \E j \in Items :
        /\ md[j].pc = "returned"
        /\ md[j].limited
        /\ md[j].budget = MaxRetries
        /\ md[j].gets = MaxRetries
        /\ md[j].sleeps = MaxRetries - 1

\* C7 (as claimed): after the n-th attempt (n = 1, 2, ...) failed with a
\* rate-limit status the delay is base^(n+1) plus a jitter of [2, 4].
C7_DelayExponentNPlusOne ==
    \A j \in Items :
        md[j].pc = "sleep" =>
            \E jitter \in JitterMin..JitterMax :
                md[j].delay = BackoffBase ^ (md[j].gets + 1) + jitter

\* C7 (amended): after the n-th attempt failed with a rate-limit status and was
\* not the last allowed one, the delay is base^n plus a jitter of [2, 4], base
\* 4; its deterministic part grows strictly with n.
C7_DelayExponentN ==
    /\ \A j \in Items :
        md[j].pc = "sleep" =>
            /\ md[j].gets < md[j].budget
            /\ md[j].last \in RateLimitStatuses
            /\ \E jitter \in JitterMin..JitterMax :
                    md[j].delay = BackoffBase ^ md[j].gets + jitter
    /\ \A attempt \in 0..(MaxRetries - 1) :
        BackoffDelay(attempt, 0) < BackoffDelay(attempt + 1, 0)

\* A downloader sleeps after its second attempt.
C7_Witness ==
    \E j \in Items : md[j].pc = "sleep" /\ md[j].gets = 2 /\ md[j].delay > 0

\* C8: when an attempt got no response or the 521 status, the link's host is
\* marked offline in the registry and the pass makes no further attempt,
\* whatever is left of the retry budget.
C8_ServerDownEndsPass ==
    \A j \in Items :
        md[j].last \in {0, HTTP_STATUS_SERVER_DOWN} =>
            /\ md[j].pc = "returned"
            /\ md[j].outcome \in {"Deferred", "Failed"}
            /\ subdomain_is_offline(md[j].link, bunkr_status)

\* The first attempt of a downloader of the largest budget got no response
\* from a host the registry held operational.
C8_Witness ==
    \E j \in Items :
        /\ md[j].last = 0
        /\ md[j].gets = 1
        /\ md[j].budget = MaxRetries
        /\ md[j].pc = "returned"
        /\ initial_status[md[j].link.host] = "Operational"
        /\ bunkr_status[md[j].link.host] = "Non-operational"

\* C9 (as claimed): a host whose registry entry the downloaders changed was
\* the target of an earlier attempt that got no response or the 521 status;
\* no other end of an attempt (4xx, 429, 502, 503, success, partial write,
\* truncated body stream) changes the registry.
C9_MarkedOnlyAfterServerDown ==
    \A h \in Hosts : bunkr_status[h] # initial_status[h] => h \in down_seen

\* C10 (as claimed): after a 502 in a pass started with retries > 1 the
\* downloader makes no further attempt and download() returns no
\* FailedDownload: the job ends Failed.
C10_BadGatewayIsFinalFailure ==
    \A j \in Items :
        (md[j].last = HTTP_STATUS_BAD_GATEWAY /\ md[j].budget > 1) =>
            /\ md[j].pc = "returned"
            /\ md[j].result = "None"
            /\ md[j].outcome = "Failed"

\* The download() of item j is cut short by the host pre-check.
CutShort(j) ==
    md[j].retries = 1 /\ bunkr_status[md[j].link.host] # "Operational"

\* The target file of item j exists, or a word of the ignore list occurs in its
\* name, or the include list is not empty and none of its words occurs.
Skips(j) ==
    \/ j \in files
    \/ \E word \in md[j].args.ignore : word = md[j].link.item
    \/ /\ md[j].args.include # {}
       /\ \A word \in md[j].args.include : word # md[j].link.item

\* The thread of item j takes the first step of download().
Starts(j) == md[j].pc = "download" /\ md'[j] # md[j]

\* C11: the host pre-check cuts download() short only when the retry budget is
\* 1: with retries = 1 and the link's host offline in the registry, download()
\* makes no HTTP request, writes the link to the session log, hides the tracker
\* and returns no FailedDownload; with retries > 1 the job goes to its first
\* HTTP attempt whatever the registry says (unless it is skipped).
C11_PreCheckOnlyOnFinalPass ==
    [][\A j \in Items :
        Starts(j) =>
            /\ CutShort(j) =>
                /\ md'[j].pc = "returned"
                /\ md'[j].gets = 0
                /\ md'[j].result = "None"
                /\ md'[j].tracker.called /\ ~md'[j].tracker.visible
                /\ session_log'[j] = session_log[j] + 1
            /\ (md[j].retries > 1 /\ ~Skips(j)) =>
                /\ md'[j].pc = "attempt"
                /\ session_log' = session_log
    ]_vars

\* A download of budget 1 against an offline host ended without a request.
C11_Witness ==
    \E j \in Items :
        /\ md[j].outcome = "Offline"
        /\ md[j].budget = 0
        /\ md[j].gets = 0
        /\ session_log[j] = 1
        /\ ~md[j].tracker.visible

\* C12: a mark written by one worker is seen by every other from the moment
\* the failing attempt returns: a host an attempt got no response from is
\* offline in the registry, and a job of retries = 1 against it that starts
\* after that makes no HTTP request, however the workers interleave.
C12_MarkSeenByOtherWorkers ==
    /\ [](\A h \in down_seen : bunkr_status[h] # "Operational")
    /\ [][\A j \in Items :
            (Starts(j) /\ md[j].retries = 1 /\ md[j].link.host \in down_seen)
                => /\ md'[j].pc = "returned"
                   /\ md'[j].gets = 0
                   /\ md'[j].outcome = "Offline"
       ]_vars

\* Job A got no response from a host the registry held operational, and job B
\* of budget 1 against the same host was cut short without a request.
C12_Witness ==
    \E a \in Items, b \in Items :
        /\ a # b
        /\ md[a].last = 0
        /\ md[a].gets = 1
        /\ md[b].link.host = md[a].link.host
        /\ initial_status[md[a].link.host] = "Operational"
        /\ md[b].outcome = "Offline"
        /\ md[b].gets = 0

\* C13: skip_file_download ends the job as a skip without an HTTP request
\* exactly when the target file exists, or a word of the ignore list occurs in
\* the file name, or the include list is not empty and none of its words
\* occurs; otherwise the job goes to its first attempt.  A skipped job has its
\* tracker set to 100% and hidden.
C13_SkipExactlyWhen ==
    [][\A j \in Items :
        (Starts(j) /\ ~CutShort(j)) =>
            IF Skips(j)
            THEN /\ md'[j].pc = "returned"
                 /\ md'[j].outcome = "Skipped"
                 /\ md'[j].gets = 0
                 /\ md'[j].tracker = update_task({100}, FALSE)
            ELSE /\ md'[j].pc = "attempt"
                 /\ md'[j].tracker = md[j].tracker
    ]_vars

\* A job whose file does not exist and whose ignore list is empty was skipped
\* for its include list.
C13_Witness ==
    \E j \in Items :
        /\ md[j].outcome = "Skipped"
        /\ j \notin files
        /\ md[j].args.ignore = {}
        /\ md[j].args.include # {}
        /\ md[j].gets = 0

\* C14: when the target path of a job exists, a download() of that job makes
\* no HTTP request, leaves the file, the temp file and the host registry as
\* they are and returns no FailedDownload.
C14_RedownloadIdempotent ==
    [][\A j \in Items :
        (Starts(j) /\ j \in files) =>
            /\ md'[j].pc = "returned"
            /\ md'[j].gets = 0
            /\ md'[j].result = "None"
            /\ files' = files
            /\ temps' = temps
            /\ bunkr_status' = bunkr_status
    ]_vars

\* A job without filters, against a host that is up, ended as a skip because
\* its file was there.
C14_Witness ==
    \E j \in Items :
        /\ md[j].pc = "returned"
        /\ md[j].outcome = "Skipped"
        /\ j \in files
        /\ md[j].args = NoArgs
        /\ bunkr_status[md[j].link.host] = "Operational"
        /\ md[j].gets = 0

\* C15: when the writer reports partial = true after a 200 response the job
\* ends at once as a success with a warning: the link is in the session log,
\* the tracker is completed and hidden, download() returns no FailedDownload,
\* no further attempt follows and the job is not appended to failed_downloads.
C15_PartialIsTerminal ==
    /\ [](\A j \in Items :
            md[j].outcome = "Partial" =>
                /\ md[j].pc = "returned"
                /\ md[j].result = "None"
                /\ md[j].last = 200
                /\ session_log[j] > 0
                /\ md[j].tracker = update_task({100}, FALSE)
                /\ j \in temps)
    /\ [][\A j \in Items :
            md[j].outcome = "Partial" =>
                /\ md'[j] \in {md[j], NoDownloader}
                /\ appended'[j] = appended[j]
       ]_vars

\* A job of the primary pass ended with a partial file at its first attempt.
C15_Witness ==
    \E j \in Items :
        /\ md[j].outcome = "Partial"
        /\ md[j].budget = DefaultRetries
        /\ md[j].gets = 1
        /\ wpc[j] = "download"

\* C16: the writer writes to the temp path only and moves the temp file to the
\* final path only when the bytes written equal the declared content length:
\* a final file the writer produced holds exactly content-length bytes, and
\* whenever the writer returns partial = true (or has not moved the file) the
\* final path is as it was before the call.
C16_PromotedOnlyWhenComplete ==
    /\ writer.moved =>
        /\ writer.final = writer.file_size
        /\ writer.total_downloaded = writer.file_size
        /\ writer.pc = "done" /\ ~writer.partial
    /\ ~writer.moved => writer.final = writer.final_before
    /\ (writer.pc = "done" /\ writer.partial) =>
        /\ ~writer.moved
        /\ writer.final = writer.final_before
        /\ writer.temp = writer.total_downloaded

\* A complete body of BodySize bytes was moved over an older final file.
C16_Witness ==
    /\ writer.pc = "done"
    /\ writer.moved
    /\ writer.file_size = BodySize
    /\ writer.final = BodySize
    /\ writer.final_before # Absent
    /\ writer.temp = Absent

\* C17 (as claimed): when the response declares no content length (-1) and the
\* stream is exhausted without an error, the writer returns partial = false.
C17_UnknownLengthIsComplete ==
    (writer.pc = "done" /\ writer.file_size = 0 - 1 /\ writer.ending = "eof")
        => ~writer.partial /\ writer.moved

\* C18 (as claimed): when the body stream is interrupted, the writer leaves
\* the temp file in place and returns partial = true; no exception leaves it.
C18_InterruptionReturnsPartial ==
    (writer.ending = "abort" /\ writer.pc \in {"done", "raised"}) =>
        /\ writer.pc = "done"
        /\ writer.partial
        /\ writer.temp # Absent

\* C19 (as claimed): within one call the percentages passed to the progress
\* sink never decrease and stay within 0..100, for every declared content
\* length (unknown and zero too), and no chunk fails to be reported.
C19_PercentagesMonotoneInRange ==
    /\ \A i \in 1..Len(writer.sink) :
        /\ writer.sink[i] \in 0..100
        /\ i > 1 => writer.sink[i - 1] <= writer.sink[i]
    /\ writer.raised # "ZeroDivisionError"

\* C20: for every file size (-1 too) get_chunk_size returns a chunk size of
\* the threshold table, which ascends in both columns, or the large chunk
\* size, and a larger file never gets a smaller chunk; so it is for the table
\* of config and for the inline table of the older revision.
C20_ChunkSizeMonotone ==
    /\ \A i \in 1..(Len(THRESHOLDS) - 1) :
        /\ THRESHOLDS[i][1] < THRESHOLDS[i + 1][1]
        /\ THRESHOLDS[i][2] < THRESHOLDS[i + 1][2]
    /\ sizes.pc = "called" =>
        /\ sizes.c1 \in {THRESHOLDS[i][2] : i \in 1..Len(THRESHOLDS)}
                            \cup {LARGE_FILE_CHUNK_SIZE}
        /\ sizes.c2 \in {THRESHOLDS[i][2] : i \in 1..Len(THRESHOLDS)}
                            \cup {LARGE_FILE_CHUNK_SIZE}
        /\ sizes.s1 <= sizes.s2 => sizes.c1 <= sizes.c2
    /\ \A i \in 1..(Len(thresholds) - 1) :
        /\ thresholds[i][1] < thresholds[i + 1][1]
        /\ thresholds[i][2] < thresholds[i + 1][2]
    /\ sizes.pc = "called" =>
        /\ sizes.i1 \in {thresholds[i][2] : i \in 1..Len(thresholds)}
                            \cup {1 * MB}
        /\ sizes.i2 \in {thresholds[i][2] : i \in 1..Len(thresholds)}
                            \cup {1 * MB}
        /\ sizes.s1 <= sizes.s2 => sizes.i1 <= sizes.i2

\* get_chunk_size was called without a content length and with a size above
\* the last threshold.
C20_Witness ==
    /\ sizes.pc = "called"
    /\ sizes.s1 = 0 - 1
    /\ sizes.c1 = THRESHOLDS[1][2]
    /\ sizes.s2 > THRESHOLDS[Len(THRESHOLDS)][1]
    /\ sizes.c2 = LARGE_FILE_CHUNK_SIZE

\* C21: decrypt_url inverts the hourly-keyed XOR scheme.  For every plaintext
\* URL p and timestamp t, the payload {timestamp: t, url: base64 of the bytes of
\* p XOR-ed with the repeated bytes of "SECRET_KEY_" + floor(t / 3600)} is
\* decrypted to p exactly, and so it is under every other timestamp of the same
\* hour (the same key).
C21_DecryptInvertsHourlyXor ==
    (crypt.pc = "done" /\ crypt.keys = {"timestamp", "url"}) =>
        /\ ~ crypt.result.none
        /\ crypt.result.text = crypt.plaintext
        /\ \A t2 \in Timestamps :
            t2 \div SecondsPerHour = crypt.t \div SecondsPerHour =>
                decrypt_url(Payload(crypt.keys, t2, crypt.api_response.url))
                    = crypt.result

\* A URL longer than the key (the key repeats) with a two-byte character has
\* been decrypted to itself under a timestamp that shares its hour with
\* another one, and the key of another hour does not decrypt it.
C21_Witness ==
    /\ crypt.pc = "done"
    /\ crypt.keys = {"timestamp", "url"}
    /\ Len(utf8_encode(crypt.plaintext)) > Len(hourly_key(crypt.t))
    /\ \E i \in 1..Len(crypt.plaintext) : crypt.plaintext[i] > 127
    /\ crypt.result.text = crypt.plaintext
    /\ \E t2 \in Timestamps :
        /\ t2 # crypt.t
        /\ t2 \div SecondsPerHour = crypt.t \div SecondsPerHour
    /\ \E t3 \in Timestamps :
        decrypt_url(Payload(crypt.keys, t3, crypt.api_response.url)).text
            # crypt.plaintext

\* C22: the link resolver reports every resolution failure as a value, never
\* as an exception to its caller: whatever the item page lacks (the page itself,
\* the media element, a download button, the page behind the button), the call
\* of get_download_info returns.
C22_ResolutionFailuresAreValues ==
    resolver.pc = "done" => resolver.info.raised = "none"

\* The stem and the extension of a name without directories: the extension
\* begins at the last dot that has a character other than a dot before it.
Extension(name) ==
    LET dots == {i \in 1..Len(name) :
                    name[i] = Dot /\ \E k \in 1..(i - 1) : name[k] # Dot}
    IN  IF dots = {} THEN <<>>
        ELSE SubSeq(name, CHOOSE i \in dots : \A k \in dots : k <= i,
                    Len(name))

Stem(name) == SubSeq(name, 1, Len(name) - Len(Extension(name)))

\* C24: format_item_filename(html_name, url_name) is html_name when the two
\* names are identical, else url_name when the stem of html_name is a substring
\* of the stem of url_name, else stem(html_name) + "-" + stem(url_name) +
\* extension(html_name); ("video.mp4", "video.mp4") gives "video.mp4",
\* ("clip", "clip_full.mp4") gives "clip_full.mp4" and ("alpha.mp4",
\* "beta.mp4") gives "alpha-beta.mp4".
C24_FilenameReconciliation ==
    (resolver.pc = "done" /\ resolver.info.raised = "none") =>
        LET html_name == resolver.item_soup.html_name
            url_name == resolver.item_soup.url_name
            video == <<118, 105, 100, 101, 111>> \o Mp4
            clip == <<99, 108, 105, 112>>
            clip_full == <<99, 108, 105, 112, 95, 102, 117, 108, 108>> \o Mp4
            alpha == <<97, 108, 112, 104, 97>> \o Mp4
            beta == <<98, 101, 116, 97>> \o Mp4
            alpha_beta == <<97, 108, 112, 104, 97, Hyphen, 98, 101, 116, 97>>
                          \o Mp4
        IN  /\ resolver.info.filename =
                IF html_name = url_name THEN html_name
                ELSE IF \E i \in 0..(Len(Stem(url_name)) - Len(Stem(html_name))) :
                            SubSeq(Stem(url_name), i + 1,
                                   i + Len(Stem(html_name))) = Stem(html_name)
                THEN url_name
                ELSE Stem(html_name) \o <<Hyphen>> \o Stem(url_name)
                     \o Extension(html_name)
            /\ (html_name = video /\ url_name = video) =>
                    resolver.info.filename = video
            /\ (html_name = clip /\ url_name = clip_full) =>
                    resolver.info.filename = clip_full
            /\ (html_name = alpha /\ url_name = beta) =>
                    resolver.info.filename = alpha_beta

\* The two names differ, neither stem holds the other, the extensions differ,
\* and the name returned is longer than both.
C24_Witness ==
    /\ resolver.pc = "done"
    /\ resolver.info.raised = "none"
    /\ Extension(resolver.item_soup.html_name) # <<>>
    /\ Extension(resolver.item_soup.html_name)
            # Extension(resolver.item_soup.url_name)
    /\ Stem(resolver.item_soup.html_name) # <<>>
    /\ Len(resolver.info.filename) > Len(resolver.item_soup.html_name)
    /\ Len(resolver.info.filename) > Len(resolver.item_soup.url_name)

\* C23: when the link resolver yields no download link for an item, the album
\* worker makes no download attempt for it, adds nothing to the deferred queue,
\* and the overall counter still advances by one for that item.
C23_NoLinkStillAdvances ==
    \A j \in DOMAIN journal :
        (journal[j].ended = "NoLink" /\ wpc[j] = "done") =>
            /\ md[j] = NoDownloader
            /\ appended[j] = 0
            /\ retried[j] = 0
            /\ task_progress[j].advanced = 1

\* C25: the overall counter never exceeds its total, and each item contributes
\* at most one unit to it: whatever update_task calls are made on the item's
\* tracker in the primary pass and in the deferred retry, the counter advances
\* once, when the tracker reaches 100%.
C25_EachItemAdvancesOnce ==
    /\ overall_completed <= overall_total
    /\ \A j \in DOMAIN task_progress :
        /\ task_progress[j].advanced <= 1
        /\ task_progress[j].finished => task_progress[j].advanced = 1

\* The items that succeeded (a skipped or partial file counts as done), and
\* those that failed in the primary pass and again in the deferred one.
Succeeded ==
    {j \in DOMAIN journal : journal[j].ended \in {"Success", "Skipped", "Partial"}}
FailedTwice ==
    {j \in DOMAIN journal :
        retried[j] > 0 /\ journal[j].ended \in {"Failed", "Offline"}}

\* C26: when download_album returns for an album of T items, every one of
\* which succeeded or failed in both passes, the overall counter is T minus the
\* number F of items that failed in both passes, and each of those is hidden
\* and was not advanced.
C26_CounterIsTotalMinusFailed ==
    (apc = "returned" /\ Succeeded \cup FailedTwice = Items) =>
        /\ overall_completed = overall_total - Cardinality(FailedTwice)
        /\ \A j \in FailedTwice :
            /\ ~ task_progress[j].visible
            /\ task_progress[j].advanced = 0

\* C27: no failure inside one item's pipeline aborts sibling items or the
\* album: when a worker ends with an exception, no other worker is cancelled
\* and download_album is not left before the deferred pass.
C27_FailureDoesNotAbortSiblings ==
    \A j \in Items :
        wpc[j] = "raised" =>
            /\ apc # "raised"
            /\ \A i \in Items \ {j} : wpc[i] # "cancelled"

\* A step taken after the interrupt starts no worker and no download thread,
\* and puts a file at a final path only when its download was a success.
NothingNewAfterInterrupt ==
    apc \in {"interrupted"} \cup Exited =>
        \A j \in Items :
            /\ wpc[j] = "pending" => wpc'[j] \in {"pending", "cancelled"}
            /\ md[j].pc = "none" => md'[j].pc = "none"
            /\ (j \in files' \ files) =>
                    (md'[j].outcome = "Success" /\ j \notin temps')

\* C28: after a top-level user interrupt no new worker is started (no
\* coroutine gets a permit, no download thread is created), the process exits
\* with a non-zero status, and a download that was in flight puts a file at
\* its final path only when the file is complete (else it leaves at most its
\* temp file).
C28_InterruptStopsAndExitsNonZero ==
    /\ [](apc \in Exited => apc # "exit 0")
    /\ [][NothingNewAfterInterrupt]_vars

\* The process has exited after an interrupt that came while the download of
\* item 1 was in flight and item 2 waited for a permit: item 2 was never
\* started, item 1 has a temp file and no final file.
C28_Witness ==
    /\ apc \in Exited
    /\ \A j \in Items : wpc[j] = "cancelled"
    /\ md[1].pc # "none"
    /\ 1 \in temps /\ 1 \notin files
    /\ md[2].pc = "none"

\* C29: no item reaches a terminal state other than plain success without a
\* log event (a live_manager.update_log call), items whose download link could
\* not be resolved included.
C29_EveryFailureLogged ==
    \A j \in DOMAIN journal :
        journal[j].ended \notin {"none", "Success"} => journal[j].logged

\* C30: the file name of a job is sanitized and length-bounded before its
\* first use: the name get_download_info hands to the downloader (the name the
\* skip check and the final path are built from, in both passes) has no
\* invalid character and is not longer than MAX_FILENAME_LEN.
C30_FilenameSanitizedOnce ==
    (resolver.pc = "done" /\ resolver.info.raised = "none") =>
        /\ resolver.info.filename = truncate_filename(resolver.info.filename)
        /\ Len(resolver.info.filename) <= MAX_FILENAME_LEN

\* The error statuses handle_request_exception has no branch for.
OtherStatuses ==
    ErrorStatuses \ ({0, HTTP_STATUS_SERVER_DOWN, HTTP_STATUS_BAD_GATEWAY}
                      \cup RateLimitStatuses)

\* An attempt of item j ends with an error status of OtherStatuses.
OtherError(j) ==
    /\ md[j].pc = "attempt"
    /\ md'[j].gets = md[j].gets + 1
    /\ md'[j].last \in OtherStatuses

\* C31: an attempt that fails with an HTTP error status other than 521, 429,
\* 503 and 502 ends the pass at once: the one GET of that attempt is the last
\* of the pass, no backoff sleep is taken, the retry budget and the host
\* registry are left as they are, and download() reports the failure.
C31_OtherErrorAbortsPass ==
    /\ [](\A j \in Items :
            md[j].last \in OtherStatuses =>
                /\ md[j].pc = "returned"
                /\ md[j].outcome \in {"Deferred", "Failed"})
    /\ [][\A j \in Items :
            OtherError(j) =>
                /\ md'[j].pc = "returned"
                /\ md'[j].sleeps = md[j].sleeps
                /\ md'[j].delay = 0
                /\ md'[j].retries = md[j].retries
                /\ bunkr_status' = bunkr_status
       ]_vars

\* The second attempt of a downloader of the largest budget got a 404 after a
\* rate-limit answer: the pass ended with budget left and the registry as it
\* was.
C31_Witness ==
    \E j \in Items :
        /\ md[j].last = 404
        /\ md[j].gets = 2
        /\ md[j].sleeps = 1
        /\ md[j].budget = MaxRetries
        /\ md[j].pc = "returned"
        /\ bunkr_status = initial_status

\* A worker's await of its download thread returns (the step of
\* download_returns that ends the worker normally).
Returns(j) == wpc[j] = "download" /\ wpc'[j] = "done"

\* What a step of the primary pass does to failed_downloads: the worker whose
\* download returned a FailedDownload appends its record, every other step
\* leaves the list as it is.
AppendsOwnRecord ==
    apc = "gather" =>
        /\ \A j \in Items :
            Returns(j) =>
                failed_downloads' =
                    IF md[j].result = "FailedDownload"
                    THEN Append(failed_downloads, FailedDownload(md[j], j))
                    ELSE failed_downloads
        /\ (\A j \in Items : ~ Returns(j)) =>
                failed_downloads' = failed_downloads

\* C32: concurrent workers do not lose or corrupt the shared state.  However
\* the workers interleave, failed_downloads gets exactly the record of each
\* worker whose download returned a FailedDownload (appended once, by that
\* worker's step, no record twice, none dropped), and every host a worker's
\* attempt got no response / 521 from is offline in the registry.
C32_SharedStateNotLost ==
    /\ [](\A h \in down_seen : bunkr_status[h] = "Non-operational")
    /\ [](\A a, b \in 1..Len(failed_downloads) :
            failed_downloads[a].id = failed_downloads[b].id => a = b)
    /\ [][AppendsOwnRecord]_vars

\* The primary pass of two workers that ran side by side has ended: worker 2
\* handed its record in before worker 1, both records are in the list, and the
\* registry holds the marks of both (two hosts, both operational before).
C32_Witness ==
    /\ apc = "gather"
    /\ \A j \in Items : wpc[j] = "done"
    /\ Len(failed_downloads) = 2
    /\ failed_downloads[1].id = 2
    /\ failed_downloads[2].id = 1
    /\ failed_downloads[1].download_link.host
            # failed_downloads[2].download_link.host
    /\ \A h \in Hosts :
            initial_status[h] = "Operational" /\ bunkr_status[h] = "Non-operational"

\* An attempt of item j gets no response / 521 (its host is marked).
MarksHost(j) ==
    /\ md[j].pc = "attempt"
    /\ md'[j].gets = md[j].gets + 1
    /\ md'[j].last \in {0, HTTP_STATUS_SERVER_DOWN}

\* A step of the downloaders keeps every key of the registry and every host
\* that is not operational as it is, and a mark of a host that is offline
\* already leaves the registry as it was.
RegistryGrows ==
    /\ DOMAIN bunkr_status' = DOMAIN bunkr_status
    /\ \A h \in DOMAIN bunkr_status :
            bunkr_status[h] # "Operational" => bunkr_status'[h] = bunkr_status[h]
    /\ \A j \in Items :
            (MarksHost(j) /\ bunkr_status[md[j].link.host] = "Non-operational")
                => bunkr_status' = bunkr_status

\* C33: the host registry only grows during a run: no step of the downloaders
\* removes a host key or turns a host that is offline back to operational,
\* and marking a host that is marked offline already leaves the registry equal
\* to what it was before the repeated mark (for every link, marking twice is
\* marking once).
C33_RegistryOnlyGrows ==
    /\ [](\A link \in Links :
            LET once == mark_subdomain_as_offline(bunkr_status, link)
            IN  /\ mark_subdomain_as_offline(once, link) = once
                /\ subdomain_is_offline(link, once))
    /\ [][RegistryGrows]_vars

\* Two workers got no response from the same host, which the status page had
\* as operational: the second mark repeated the first, and the other host is
\* as the status page had it.
C33_Witness ==
    \E a, b \in Items :
        /\ a # b
        /\ md[a].last = 0 /\ md[b].last = 0
        /\ md[a].link.host = md[b].link.host
        /\ initial_status[md[a].link.host] = "Operational"
        /\ bunkr_status[md[a].link.host] = "Non-operational"
        /\ \E h \in Hosts :
            h # md[a].link.host /\ bunkr_status[h] = "Non-operational"

\* C34 (as claimed): a download() of the primary pass that returns without a
\* success, a skip or a partial file returns a FailedDownload for its job and
\* leaves the job's tracker visible (and not completed); the deferred retry
\* of the record runs on the link and the tracker of that job.
C34_DeferredKeepsTrackerVisible ==
    \A j \in DOMAIN task_progress :
        /\ (/\ retried[j] = 0
             /\ md[j].pc = "returned"
             /\ md[j].outcome \notin {"Success", "Skipped", "Partial"}) =>
                /\ md[j].result = "FailedDownload"
                /\ task_progress[j].visible
                /\ ~ task_progress[j].finished
        /\ (IsRetry(j) /\ md[j].pc = "download") =>
                /\ failed_downloads[retry_idx] = FailedDownload(md[j], j)
                /\ task_progress[j].visible

\* C35 (as claimed): every job that ends in the terminal Failed state (its
\* final attempt failed and handle_failed_download reported "The failure has
\* been logged.") has its download link in the session log.
C35_FailedJobIsLogged ==
    \A j \in Items :
        (md[j].pc = "returned" /\ md[j].outcome = "Failed") =>
            session_log[j] > 0

\* C36 (as claimed): for every file name truncate_filename returns a name of
\* at most MAX_FILENAME_LEN characters that ends with the extension of the
\* input.
C36_TruncatedNameIsBounded ==
    naming.pc = "done" =>
        LET extension == PathSuffix(naming.filename)
            n == Len(naming.result)
        IN  /\ n <= MAX_FILENAME_LEN
            /\ SubSeq(naming.result, n - Len(extension) + 1, n) = extension

\* C37: the retries of an item are bounded over the whole run of the album.
\* Whatever the HTTP outcomes, at most DefaultRetries + 1 GETs are made for an
\* item (the primary budget and the one deferred retry), and at least one has
\* been made when a download() of the item has ended otherwise than by a skip
\* (its link was resolved and the target was not skipped).
C37_AttemptsBoundedPerItem ==
    \A j \in DOMAIN journal :
        /\ journal[j].gets <= DefaultRetries + 1
        /\ retried[j] = 0 => journal[j].gets <= DefaultRetries
        /\ md[j].pc = "none" => journal[j].gets >= retried[j]
        /\ (md[j].pc \in {"returned", "raised"} /\ md[j].outcome # "Skipped")
                => journal[j].gets >= 1

\* An item has used all of it: DefaultRetries rate-limited GETs in the primary
\* pass and the GET of its deferred retry, which failed too.
C37_Witness ==
    \E j \in DOMAIN journal :
        /\ journal[j].gets = DefaultRetries + 1
        /\ IsRetry(j)
        /\ md[j].pc = "returned"
        /\ md[j].outcome = "Failed"

\* C38 (as claimed): two jobs in flight at the same time whose final paths
\* differ write to different temp files: the temp paths save_file_with_progress
\* derives for them (the final path with its suffix replaced by ".temp") are
\* different.
C38_TempPathsDistinct ==
    \A a, b \in paths.opened :
        paths.final[a] # paths.final[b] => paths.temp[a] # paths.temp[b]

\* C40 (as claimed): the skip check is the first decision of download(): a
\* job whose target file exists ends as Skipped, without a request and with its
\* tracker at 100%, for every retry budget and every state of the host
\* registry, the deferred pass (retries = 1) against a host registered offline
\* included.
C40_SkipCheckFirst ==
    [][\A j \in Items :
        (Starts(j) /\ j \in files) =>
            /\ md'[j].pc = "returned"
            /\ md'[j].outcome = "Skipped"
            /\ md'[j].gets = 0
            /\ md'[j].tracker = update_task({100}, FALSE)
            /\ session_log'[j] = session_log[j]
    ]_vars

\* The ways a download() ends by the state machine of the downloader; the cut
\* short by the host pre-check on the last pass is counted as Failed.
Outcomes == {"Skipped", "Success", "Partial", "Deferred", "Failed", "Offline"}

\* No write to the temp file fails: no download() is left by an OSError.
NoDiskFault == [](\A j \in Items : md[j].outcome # "Raised")

\* Every download() that was started returns in one of the outcomes.
DownloadsEnd ==
    \A j \in Items :
        [](md[j].pc \in {"download", "attempt", "sleep"}
             => <>(md[j].pc = "returned" /\ md[j].outcome \in Outcomes))

\* C39 (as claimed): when every HTTP call and every backoff sleep returns (and
\* no write to disk fails), every download() that was started returns in one of
\* the outcomes Skipped, Success, Partial, Deferred or Failed, whatever the
\* responses are, and download_album returns in the end.
C39_DownloadsEndAlbumReturns ==
    NoDiskFault => (DownloadsEnd /\ <>(apc = "returned"))

====
